---- MODULE Spec2Model ----
(***************************************************************************)
(* A model of the SimpleP compiler: the symbol table, the semantic pass    *)
(* (SymbolTableBuilder), the high-level code generator (HighLevelCodeGen), *)
(* the x86-64 lowering (AssemblyCodeGen) and the execution of the emitted  *)
(* machine instructions.                                                   *)
(***************************************************************************)
EXTENDS Integers, Sequences, FiniteSets, TLC

VARIABLES
    phase,        \* which pass is running: "sem", "sem_stmt", "halted", ...
    scopes,       \* the SymbolTable objects: scopes[i] = [parent, depth, tab]
    scope,        \* SymbolTableBuilder::scope, an index into scopes
    curr_offset,  \* SymbolTableBuilder::curr_offset
    pending,      \* definitions whose RECORD type is still being visited
    err,          \* the fatal error that ended the compilation, or "none"
    ndecl,        \* number of definitions and expressions visited so far
    lastDecl,     \* the definition visited last: [names, scope, seq]
    annot,        \* the AST node annotated last by the semantic pass
    listing,      \* what print_sym_tab wrote: [done, lines, entered, fault]
    m_vreg,       \* HighLevelCodeGen::m_vreg
    m_vreg_max,   \* HighLevelCodeGen::m_vreg_max
    loop_index,   \* HighLevelCodeGen::loop_index
    code,         \* HighLevelCodeGen::code, the instructions of the sequence
    labels,       \* HighLevelCodeGen::code, its map instruction index -> label
    nstmt,        \* number of statements of the program visited so far
    assembly,     \* AssemblyCodeGen::assembly: [code, labels]
    local_storage_size,  \* AssemblyCodeGen::local_storage_size
    num_vreg,            \* AssemblyCodeGen::num_vreg
    total_storage_size,  \* AssemblyCodeGen::total_storage_size
    main,         \* the instructions of main as emitted
    program,      \* the source program being run: [decls, stmts]
    top,          \* %rsp at the entry of main
    pc,           \* index (from 0) in main of the next machine instruction
    regs,         \* the machine registers that hold a defined value
    mem,          \* the stack memory that holds a defined value, by address
    flags,        \* the condition codes: [def, zf, lt]
    out,          \* the lines printed so far
    ninput,       \* number of values read so far
    branches,     \* for each conditional jump executed so far, whether taken
    steps,        \* number of machine instructions executed so far
    prior,        \* the run of the program before its comparisons were mirrored
    entry,        \* the stack memory main was entered with, where it is known
    interp        \* the interpreter: [envs, err, n, last], envs[i] = [vars, parent]

semvars == <<scopes, scope, curr_offset, pending, err, ndecl, lastDecl, annot, listing>>
genvars == <<m_vreg, m_vreg_max, loop_index, code, labels, nstmt>>
asmvars == <<assembly, local_storage_size, num_vreg, total_storage_size, main>>
runvars == <<program, top, pc, regs, mem, flags, out, ninput, branches, steps, prior,
             entry, interp>>
restvars == <<genvars, asmvars, runvars>>
vars == <<phase, semvars, genvars, asmvars, runvars>>

----------------------------------------------------------------------------
(* Bounds of the model *)

MaxDecls == 3       \* definitions and expressions visited by the semantic pass
MaxDepth == 2       \* nesting of RECORD types

Names == {"x", "y"}

----------------------------------------------------------------------------
(* Types (type.h) *)

\* F applied to the value of v, with v evaluated once: the sequencing of
\* the visitors' statements
Bind(v, F(_)) == CHOOSE r \in {F(a) : a \in {v}} : TRUE

PrimitiveSize == 8

NullType == [realType |-> "NULL"]

type_create_integer == [realType |-> "PRIMITIVE", name |-> "INTEGER", size |-> PrimitiveSize]

type_create_char == [realType |-> "PRIMITIVE", name |-> "CHAR", size |-> PrimitiveSize]

type_create_array(n, elementType) ==
    [realType |-> "ARRAY", arraySize |-> n, arrayElementType |-> elementType,
     size |-> n * elementType.size]

RECURSIVE SumSizes(_)
SumSizes(tab) ==
    IF tab = <<>> THEN 0 ELSE Head(tab).type.size + SumSizes(Tail(tab))

type_create_record(tabs, s) ==
    [realType |-> "RECORD", symtab |-> s, size |-> SumSizes(tabs[s].tab)]

----------------------------------------------------------------------------
(* Symbol table (symtab.cpp) *)

NullScope == 0

symbol_create(name, type, kind, offset) ==
    [name |-> name, type |-> type, kind |-> kind, offset |-> offset]

SymbolTable_same_depth(tabs, outer) ==
    [parent |-> outer,
     depth  |-> IF outer = NullScope THEN 0 ELSE tabs[outer].depth,
     tab    |-> <<>>]

SymbolTable(tabs, outer) ==
    [parent |-> outer,
     depth  |-> IF outer = NullScope THEN 0 ELSE tabs[outer].depth + 1,
     tab    |-> <<>>]

HasLocal(tabs, s, name) ==
    \E i \in 1..Len(tabs[s].tab) : tabs[s].tab[i].name = name

FirstLocal(tabs, s, name) ==
    LET i == CHOOSE j \in 1..Len(tabs[s].tab) :
                 /\ tabs[s].tab[j].name = name
                 /\ \A k \in 1..(j - 1) : tabs[s].tab[k].name # name
    IN  tabs[s].tab[i]

s_exists_local(tabs, s, name) == HasLocal(tabs, s, name)

RECURSIVE s_exists(_, _, _)
s_exists(tabs, s, name) ==
    IF HasLocal(tabs, s, name) THEN TRUE
    ELSE IF tabs[s].parent # NullScope THEN s_exists(tabs, tabs[s].parent, name)
    ELSE FALSE

lookup_local(tabs, s, name) ==
    IF HasLocal(tabs, s, name) THEN [fatal |-> FALSE, sym |-> FirstLocal(tabs, s, name)]
    ELSE [fatal |-> TRUE, sym |-> symbol_create(name, NullType, "NONE", 0)]

\* lookup: fatal |-> TRUE stands for err_fatal("Undefined variable")
RECURSIVE lookup(_, _, _)
lookup(tabs, s, name) ==
    IF HasLocal(tabs, s, name) THEN [fatal |-> FALSE, sym |-> FirstLocal(tabs, s, name)]
    ELSE IF tabs[s].parent # NullScope THEN lookup(tabs, tabs[s].parent, name)
    ELSE [fatal |-> TRUE, sym |-> symbol_create(name, NullType, "NONE", 0)]

\* insert: fatal |-> TRUE stands for err_fatal("Name is already defined")
insert(tabs, s, symbol) ==
    IF s_exists(tabs, s, symbol.name)
    THEN [fatal |-> TRUE, tabs |-> tabs]
    ELSE [fatal |-> FALSE,
          tabs  |-> [tabs EXCEPT ![s].tab = Append(@, symbol)]]

StorageKinds == {"VARIABLE", "CONST"}

RECURSIVE StorageSize(_)
StorageSize(tab) ==
    IF tab = <<>> THEN 0
    ELSE (IF Head(tab).kind \in StorageKinds THEN Head(tab).type.size ELSE 0)
         + StorageSize(Tail(tab))

get_total_size(tabs, s) == StorageSize(tabs[s].tab)

----------------------------------------------------------------------------
(* AST nodes: tag, identifier text, literal lexeme (decimal digits), kids, *)
(* and the annotations the passes set (type, ival).                        *)

Node(tag, str, lex, kids) ==
    [tag |-> tag, str |-> str, lex |-> lex, kids |-> kids,
     type |-> NullType, ival |-> 0]

IntLiteral(lex)     == Node("AST_INT_LITERAL", "", lex, <<>>)
Identifier(name)    == Node("AST_IDENTIFIER", name, <<>>, <<>>)
VarRef(name)        == Node("AST_VAR_REF", "", <<>>, <<Identifier(name)>>)
ArrayElementRef(name, index) ==
    Node("AST_ARRAY_ELEMENT_REF", "", <<>>, <<VarRef(name), index>>)
BinaryOp(tag, l, r) == Node(tag, "", <<>>, <<l, r>>)
NamedType(name)     == Node("AST_NAMED_TYPE", "", <<>>, <<Identifier(name)>>)
ArrayType(lex, elem) == Node("AST_ARRAY_TYPE", "", <<>>, <<IntLiteral(lex), elem>>)

\* The decimal digits of LONG_MAX = 2^63 - 1, and the integer that stands for
\* it: the integers of the model end at 2^31 - 1, and no lexeme of 10 to 19
\* digits is drawn, so no other value reaches it.
LongMaxDigits == <<9, 2, 2, 3, 3, 7, 2, 0, 3, 6, 8, 5, 4, 7, 7, 5, 8, 0, 7>>

LONG_MAX == 2147483647

RECURSIVE StripZeros(_)
StripZeros(lex) ==
    IF Len(lex) > 1 /\ Head(lex) = 0 THEN StripZeros(Tail(lex)) ELSE lex

\* the number a digit sequence denotes is above LONG_MAX
ExceedsLong(lex) ==
    LET c == StripZeros(lex)
        n == Len(LongMaxDigits)
    IN  \/ Len(c) > n
        \/ /\ Len(c) = n
           /\ \E i \in 1..n : /\ c[i] > LongMaxDigits[i]
                               /\ \A k \in 1..(i - 1) : c[k] = LongMaxDigits[k]

RECURSIVE DigitsValue(_)
DigitsValue(lex) ==
    IF lex = <<>> THEN 0
    ELSE DigitsValue(SubSeq(lex, 1, Len(lex) - 1)) * 10 + lex[Len(lex)]

\* strtol(lexeme, nullptr, 10) on a lexeme of decimal digits: the value, or
\* LONG_MAX when the value is out of the range of long
strtol(lex) == IF ExceedsLong(lex) THEN LONG_MAX ELSE DigitsValue(lex)

----------------------------------------------------------------------------
(* Semantic pass (SymbolTableBuilder) *)

\* The visitor on an expression or type node: the annotated node, and whether
\* a fatal error ("unknown_type", "undefined_var") ended the pass.
RECURSIVE SemVisit(_, _, _)
SemVisit(tabs, s, node) ==
    CASE node.tag = "AST_INT_LITERAL" ->
           [err |-> "none",
            node |-> [node EXCEPT !.ival = strtol(node.lex),
                                  !.type = type_create_integer]]
      [] node.tag = "AST_VAR_REF" ->
           LET varname == node.kids[1].str IN
           IF s_exists(tabs, s, varname)
           THEN [err |-> "none",
                 node |-> [node EXCEPT !.str = varname,
                                       !.type = lookup(tabs, s, varname).sym.type]]
           ELSE [err |-> "undefined_var", node |-> node]
      [] node.tag = "AST_NAMED_TYPE" ->
           LET type_str == node.kids[1].str IN
           IF type_str = "INTEGER"
           THEN [err |-> "none", node |-> [node EXCEPT !.type = type_create_integer]]
           ELSE IF type_str = "CHAR"
           THEN [err |-> "none", node |-> [node EXCEPT !.type = type_create_char]]
           ELSE IF s_exists(tabs, s, type_str)
           THEN [err |-> "none",
                 node |-> [node EXCEPT !.type = lookup(tabs, s, type_str).sym.type]]
           ELSE [err |-> "unknown_type", node |-> node]
      [] node.tag = "AST_ARRAY_TYPE" ->
           LET left  == SemVisit(tabs, s, node.kids[1])
               right == SemVisit(tabs, s, node.kids[2])
           IN  IF right.err # "none" THEN [err |-> right.err, node |-> node]
               ELSE [err |-> "none",
                     node |-> [node EXCEPT
                         !.kids = <<left.node, right.node>>,
                         !.type = type_create_array(left.node.ival, right.node.type)]]
      [] OTHER ->
           \* no handler in SymbolTableBuilder: ASTVisitor recurs on the children
           LET sub == [i \in 1..Len(node.kids) |-> SemVisit(tabs, s, node.kids[i])]
               bad == {i \in 1..Len(node.kids) : sub[i].err # "none"}
           IN  IF bad # {}
               THEN [err |-> sub[CHOOSE i \in bad : \A j \in bad : i <= j].err,
                     node |-> node]
               ELSE [err |-> "none",
                     node |-> [node EXCEPT
                         !.kids = [i \in 1..Len(node.kids) |-> sub[i].node]]]

\* The loop of visit_var_def (one pass of it for visit_constant_def and
\* visit_type_def): offset from the cursor, cursor advanced, then the
\* s_exists check and the insert.
RECURSIVE DefineNames(_, _, _, _)
DefineNames(b0, names, type, kind) ==
    Bind(b0, LAMBDA b :
        IF names = <<>> THEN b
        ELSE LET name   == Head(names)
                 sym    == symbol_create(name, type, kind, b.curr_offset)
                 cursor == b.curr_offset + type.size
             IN  IF s_exists(b.tabs, b.scope, name)
                 THEN [b EXCEPT !.curr_offset = cursor, !.err = "redeclared"]
                 ELSE DefineNames(
                         [b EXCEPT !.curr_offset = cursor,
                                   !.tabs = insert(b.tabs, b.scope, sym).tabs],
                         Tail(names), type, kind))

\* type_create_array applied for each enclosing ARRAY n OF, innermost first
RECURSIVE WrapArrays(_, _)
WrapArrays(dims, type) ==
    IF dims = <<>> THEN type
    ELSE type_create_array(strtol(Head(dims)), WrapArrays(Tail(dims), type))

Builder == [tabs |-> scopes, scope |-> scope, curr_offset |-> curr_offset, err |-> "none"]

----------------------------------------------------------------------------
(* The symbol table print (SymbolTable::print_sym_tab, Context::build_symtab) *)

Kinds == {"VARIABLE", "CONST", "TYPE"}

\* get_name_for_kind
get_name_for_kind(kind) ==
    CASE kind = "VARIABLE" -> "VAR"
      [] kind = "CONST"    -> "CONST"
      [] kind = "TYPE"     -> "TYPE"

\* Type::to_string
RECURSIVE to_string(_)
to_string(type) ==
    CASE type.realType = "PRIMITIVE" -> <<type.name>>
      [] type.realType = "ARRAY" ->
           <<"ARRAY", type.arraySize, "OF">> \o to_string(type.arrayElementType)
      [] type.realType = "RECORD" -> <<"RECORD">>

NoListing == [done |-> FALSE, lines |-> <<>>, entered |-> {}, fault |-> FALSE]

\* The loop of print_sym_tab from symbol i of scope s on. The test of the
\* loop is sym.get_kind() == RECORD, a Kind compared with an enumerator of
\* RealType: it holds for the symbols of the one kind rk whose enumerator has
\* the value of RECORD, whatever their type. The member symtab of a type that
\* is not a record points to no scope: following it ends the process (ub =
\* "fault") or prints nothing (ub = "empty").
RECURSIVE print_from(_, _, _, _, _, _)
print_from(tabs, s, i, rk, ub, acc0) ==
    Bind(acc0, LAMBDA acc :
        IF acc.fault \/ i > Len(tabs[s].tab) THEN acc
        ELSE LET sym  == tabs[s].tab[i]
                 here == [acc EXCEPT !.entered = @ \cup {<<s, i>>}]
                 line == <<tabs[s].depth, get_name_for_kind(sym.kind), sym.name,
                           to_string(sym.type)>>
             IN  Bind(IF sym.kind # rk THEN acc
                      ELSE IF sym.type.realType = "RECORD"
                      THEN print_from(tabs, sym.type.symtab, 1, rk, ub, here)
                      ELSE IF ub = "fault" THEN [here EXCEPT !.fault = TRUE]
                      ELSE here,
                 LAMBDA a :
                     IF a.fault THEN a
                     ELSE print_from(tabs, s, i + 1, rk, ub,
                                     [a EXCEPT !.lines = Append(@, line)])))

print_sym_tab(tabs, s, rk, ub) == print_from(tabs, s, 1, rk, ub, NoListing)

----------------------------------------------------------------------------
(* Operands, instructions and instruction sequences (cfg.h) *)

Operand(kind, val) == [kind |-> kind, val |-> val]
VReg(n)       == Operand("OPERAND_VREG", n)
VRegMemref(n) == Operand("OPERAND_VREG_MEMREF", n)
IntLit(v)     == Operand("OPERAND_INT_LITERAL", v)
LabelOp(l)    == Operand("OPERAND_LABEL", l)

get_base_reg(op) == op.val
has_base_reg(op) == op.kind \in {"OPERAND_VREG", "OPERAND_VREG_MEMREF"}
is_memref(op)    == op.kind = "OPERAND_VREG_MEMREF"
to_memref(op)    == Operand("OPERAND_VREG_MEMREF", op.val)

Instruction(opcode, operands) == [opcode |-> opcode, operands |-> operands]

\* InstructionSequence: instructions, and a map from the index (from 0) of an
\* instruction to the label defined immediately before it
add_instruction(g, ins) == [g EXCEPT !.code = Append(@, ins)]

define_label(g, label) ==
    [g EXCEPT !.labels = (Len(g.code) :> label) @@ @]

has_label(seq, i) == i \in DOMAIN seq.labels
has_label_at_end(seq) == Len(seq.code) \in DOMAIN seq.labels

----------------------------------------------------------------------------
(* High-level code generator (HighLevelCodeGen) *)

CodeGen ==
    [vreg |-> m_vreg, vreg_max |-> m_vreg_max, loop_index |-> loop_index,
     code |-> code, labels |-> labels]

next_vreg_no_max(g) == [g EXCEPT !.vreg = @ + 1]

next_vreg(g0) ==
    Bind(g0, LAMBDA g :
        [g EXCEPT !.vreg = @ + 1,
                  !.vreg_max = IF @ < g.vreg + 1 THEN g.vreg + 1 ELSE @])

reset_vreg(g) == [g EXCEPT !.vreg = -1]

\* cpputil::format(".L%ld", loop_index)
LabelName(n) == <<".L", n>>

\* next_label: the label is LabelName(g.loop_index) of the state before
next_label(g) == [g EXCEPT !.loop_index = @ + 1]

get_vreg_max_as_mark(g) == g.vreg_max

get_vreg_max(g) == g.vreg_max + 1

GlobalScope == 1

visit_identifier(g, tabs, ast) ==
    Bind(next_vreg(g), LAMBDA g1 :
        LET offset == lookup(tabs, GlobalScope, ast.str).sym.offset
        IN  [g  |-> add_instruction(g1,
                        Instruction("HINS_LOCALADDR", <<VReg(g1.vreg), IntLit(offset)>>)),
             op |-> VReg(g1.vreg)])

\* the visit of the base class: the names of the definitions reach
\* visit_identifier
RECURSIVE visit_declarations_recur(_, _, _)
visit_declarations_recur(g, tabs, decls) ==
    IF decls = <<>> THEN g
    ELSE visit_declarations_recur(
             visit_identifier(g, tabs, Identifier(Head(decls).names[1])).g,
             tabs, Tail(decls))

\* HighLevelCodeGen::visit_declarations: the declarations are not visited
visit_declarations(g, tabs, decls) == g

IsRef(node) == node.tag \in {"AST_VAR_REF", "AST_ARRAY_ELEMENT_REF"}

\* "ldi vrN, (vrK)" for an operand that is a variable or array element
LoadIfRef(g, node, op) ==
    IF IsRef(node)
    THEN Bind(next_vreg(g), LAMBDA g1 :
              [g  |-> add_instruction(g1,
                          Instruction("HINS_LOAD_INT",
                                      <<VReg(g1.vreg), VRegMemref(get_base_reg(op))>>)),
               op |-> VReg(g1.vreg)])
    ELSE [g |-> g, op |-> op]

BinaryOpcode(tag) ==
    CASE tag = "AST_ADD"      -> "HINS_INT_ADD"
      [] tag = "AST_SUBTRACT" -> "HINS_INT_SUB"
      [] tag = "AST_MULTIPLY" -> "HINS_INT_MUL"
      [] tag = "AST_DIVIDE"   -> "HINS_INT_DIV"
      [] tag = "AST_MODULUS"  -> "HINS_INT_MOD"

ArithTags == {"AST_ADD", "AST_SUBTRACT", "AST_MULTIPLY", "AST_DIVIDE", "AST_MODULUS"}

RECURSIVE GenExpr(_, _, _)

\* the operands of a binary operator or a comparison: both children visited,
\* then each one that is a variable or array element loaded
Operands(g, tabs, ast) ==
    Bind(GenExpr(g, tabs, ast.kids[1]), LAMBDA lhs :
    Bind(GenExpr(lhs.g, tabs, ast.kids[2]), LAMBDA rhs :
    Bind(LoadIfRef(rhs.g, ast.kids[1], lhs.op), LAMBDA l :
    Bind(LoadIfRef(l.g, ast.kids[2], rhs.op), LAMBDA r :
        [g |-> r.g, l |-> l.op, r |-> r.op]))))

GenExpr(g, tabs, ast) ==
    CASE ast.tag = "AST_INT_LITERAL" ->
           Bind(next_vreg(g), LAMBDA g1 :
               [g  |-> add_instruction(g1,
                           Instruction("HINS_LOAD_ICONST",
                                       <<VReg(g1.vreg), IntLit(ast.ival)>>)),
                op |-> VReg(g1.vreg)])
      [] ast.tag = "AST_VAR_REF" ->
           visit_identifier(g, tabs, ast.kids[1])
      [] ast.tag = "AST_ARRAY_ELEMENT_REF" ->
           Bind(GenExpr(g, tabs, ast.kids[1]), LAMBDA arr :
           Bind(GenExpr(arr.g, tabs, ast.kids[2]), LAMBDA index :
           Bind(next_vreg(index.g), LAMBDA g1 :
               LET index_op == IF ast.kids[2].tag = "AST_VAR_REF"
                               THEN to_memref(index.op) ELSE index.op
                   array_type   == lookup(tabs, GlobalScope, ast.kids[1].str).sym.type
                   element_size == IntLit(array_type.arrayElementType.size)
                   g2 == add_instruction(g1,
                             Instruction("HINS_INT_MUL",
                                         <<VReg(g1.vreg), index_op, element_size>>))
               IN  Bind(next_vreg(g2), LAMBDA g3 :
                       [g  |-> add_instruction(g3,
                                   Instruction("HINS_INT_ADD",
                                               <<VReg(g3.vreg), arr.op, VReg(g1.vreg)>>)),
                        op |-> VReg(g3.vreg)]))))
      [] ast.tag \in ArithTags ->
           Bind(Operands(g, tabs, ast), LAMBDA o :
           Bind(next_vreg(o.g), LAMBDA g1 :
               [g  |-> add_instruction(g1,
                           Instruction(BinaryOpcode(ast.tag),
                                       <<VReg(g1.vreg), o.l, o.r>>)),
                op |-> VReg(g1.vreg)]))

CompareTags ==
    {"AST_COMPARE_EQ", "AST_COMPARE_NEQ", "AST_COMPARE_LT", "AST_COMPARE_LTE",
     "AST_COMPARE_GT", "AST_COMPARE_GTE"}

JumpOpcode_inverted_lt_as_gt(tag, inverted) ==
    CASE tag = "AST_COMPARE_EQ"  -> IF inverted THEN "HINS_JNE"  ELSE "HINS_JE"
      [] tag = "AST_COMPARE_NEQ" -> IF inverted THEN "HINS_JE"   ELSE "HINS_JNE"
      [] tag = "AST_COMPARE_LT"  -> IF inverted THEN "HINS_JGT"  ELSE "HINS_JLT"
      [] tag = "AST_COMPARE_LTE" -> IF inverted THEN "HINS_JGT"  ELSE "HINS_JLTE"
      [] tag = "AST_COMPARE_GT"  -> IF inverted THEN "HINS_JLTE" ELSE "HINS_JGT"
      [] tag = "AST_COMPARE_GTE" -> IF inverted THEN "HINS_JLT"  ELSE "HINS_JGTE"

JumpOpcode_gte_inverted_as_jlte(tag, inverted) ==
    CASE tag = "AST_COMPARE_EQ"  -> IF inverted THEN "HINS_JNE"  ELSE "HINS_JE"
      [] tag = "AST_COMPARE_NEQ" -> IF inverted THEN "HINS_JE"   ELSE "HINS_JNE"
      [] tag = "AST_COMPARE_LT"  -> IF inverted THEN "HINS_JGTE" ELSE "HINS_JLT"
      [] tag = "AST_COMPARE_LTE" -> IF inverted THEN "HINS_JGT"  ELSE "HINS_JLTE"
      [] tag = "AST_COMPARE_GT"  -> IF inverted THEN "HINS_JLTE" ELSE "HINS_JGT"
      [] tag = "AST_COMPARE_GTE" -> IF inverted THEN "HINS_JLTE" ELSE "HINS_JGTE"

JumpOpcode_gt_inverted_as_jlt(tag, inverted) ==
    CASE tag = "AST_COMPARE_EQ"  -> IF inverted THEN "HINS_JNE"  ELSE "HINS_JE"
      [] tag = "AST_COMPARE_NEQ" -> IF inverted THEN "HINS_JE"   ELSE "HINS_JNE"
      [] tag = "AST_COMPARE_LT"  -> IF inverted THEN "HINS_JGTE" ELSE "HINS_JLT"
      [] tag = "AST_COMPARE_LTE" -> IF inverted THEN "HINS_JGT"  ELSE "HINS_JLTE"
      [] tag = "AST_COMPARE_GT"  -> IF inverted THEN "HINS_JLT"  ELSE "HINS_JGT"
      [] tag = "AST_COMPARE_GTE" -> IF inverted THEN "HINS_JLT"  ELSE "HINS_JGTE"

JumpOpcode_never_inverted(tag, inverted) ==
    CASE tag = "AST_COMPARE_EQ"  -> "HINS_JE"
      [] tag = "AST_COMPARE_NEQ" -> "HINS_JNE"
      [] tag = "AST_COMPARE_LT"  -> "HINS_JLT"
      [] tag = "AST_COMPARE_LTE" -> "HINS_JLTE"
      [] tag = "AST_COMPARE_GT"  -> "HINS_JGT"
      [] tag = "AST_COMPARE_GTE" -> "HINS_JGTE"

\* the conditional jump of visit_compare_*
JumpOpcode(tag, inverted) ==
    CASE tag = "AST_COMPARE_EQ"  -> IF inverted THEN "HINS_JNE"  ELSE "HINS_JE"
      [] tag = "AST_COMPARE_NEQ" -> IF inverted THEN "HINS_JE"   ELSE "HINS_JNE"
      [] tag = "AST_COMPARE_LT"  -> IF inverted THEN "HINS_JGTE" ELSE "HINS_JLT"
      [] tag = "AST_COMPARE_LTE" -> IF inverted THEN "HINS_JGT"  ELSE "HINS_JLTE"
      [] tag = "AST_COMPARE_GT"  -> IF inverted THEN "HINS_JLTE" ELSE "HINS_JGT"
      [] tag = "AST_COMPARE_GTE" -> IF inverted THEN "HINS_JLT"  ELSE "HINS_JGTE"

\* visit_compare_*: the node's inverted flag and operand (the jump target)
\* are set by the control statement before the visit
visit_compare(g, tabs, ast, inverted, target) ==
    Bind(Operands(g, tabs, ast), LAMBDA o :
        add_instruction(
            add_instruction(o.g, Instruction("HINS_INT_COMPARE", <<o.l, o.r>>)),
            Instruction(JumpOpcode(ast.tag, inverted), <<LabelOp(target)>>)))

visit_assign(g, tabs, ast) ==
    Bind(GenExpr(g, tabs, ast.kids[1]), LAMBDA lhs :
    Bind(GenExpr(lhs.g, tabs, ast.kids[2]), LAMBDA rhs :
        LET valop == VReg(get_base_reg(rhs.op))
            refop == VRegMemref(get_base_reg(lhs.op))
        IN  reset_vreg(add_instruction(rhs.g,
                           Instruction("HINS_STORE_INT", <<refop, valop>>)))))

visit_read(g, tabs, ast) ==
    Bind(GenExpr(g, tabs, ast.kids[1]), LAMBDA varref :
    Bind(next_vreg(varref.g), LAMBDA g1 :
        LET g2 == add_instruction(g1, Instruction("HINS_READ_INT", <<VReg(g1.vreg)>>))
            toaddr == VRegMemref(get_base_reg(varref.op))
        IN  reset_vreg(add_instruction(g2,
                           Instruction("HINS_STORE_INT", <<toaddr, VReg(g1.vreg)>>)))))

visit_write(g, tabs, ast) ==
    Bind(GenExpr(g, tabs, ast.kids[1]), LAMBDA kid :
    Bind(LoadIfRef(kid.g, ast.kids[1], kid.op), LAMBDA v :
        reset_vreg(add_instruction(v.g, Instruction("HINS_WRITE_INT", <<v.op>>)))))

RECURSIVE GenStmt(_, _, _)
RECURSIVE GenSeq(_, _, _)

\* the statements of an instructions node, in order
GenSeq(g, tabs, stmts) ==
    IF stmts = <<>> THEN g
    ELSE Bind(GenStmt(g, tabs, Head(stmts)), LAMBDA g1 : GenSeq(g1, tabs, Tail(stmts)))

GenStmt(g0, tabs, ast) ==
    Bind(g0, LAMBDA g :
    CASE ast.tag = "AST_INSTRUCTIONS" -> GenSeq(g, tabs, ast.kids)
      [] ast.tag = "AST_ASSIGN" -> visit_assign(g, tabs, ast)
      [] ast.tag = "AST_READ"   -> visit_read(g, tabs, ast)
      [] ast.tag = "AST_WRITE"  -> visit_write(g, tabs, ast)
      [] ast.tag = "AST_IF" ->
           LET out_label == LabelName(g.loop_index)
           IN  Bind(visit_compare(next_label(g), tabs, ast.kids[1], TRUE, out_label),
               LAMBDA g2 :
               Bind(GenStmt(g2, tabs, ast.kids[2]), LAMBDA g3 :
                   define_label(g3, out_label)))
      [] ast.tag = "AST_IF_ELSE" ->
           LET else_label == LabelName(g.loop_index)
               out_label  == LabelName(g.loop_index + 1)
           IN  Bind(visit_compare(next_label(next_label(g)), tabs, ast.kids[1],
                                  TRUE, else_label),
               LAMBDA g2 :
               Bind(GenStmt(g2, tabs, ast.kids[2]), LAMBDA g3 :
               Bind(add_instruction(g3, Instruction("HINS_JUMP", <<LabelOp(out_label)>>)),
               LAMBDA g4 :
               Bind(GenStmt(define_label(g4, else_label), tabs, ast.kids[3]),
               LAMBDA g6 :
                   add_instruction(define_label(g6, out_label),
                                   Instruction("HINS_NOP", <<>>))))))
      [] ast.tag = "AST_REPEAT" ->
           LET loop_body_label      == LabelName(g.loop_index)
               loop_condition_label == LabelName(g.loop_index + 1)
           IN  Bind(define_label(next_label(next_label(g)), loop_body_label),
               LAMBDA g2 :
               Bind(GenStmt(g2, tabs, ast.kids[1]), LAMBDA g3 :
                   visit_compare(define_label(g3, loop_condition_label), tabs,
                                 ast.kids[2], TRUE, loop_body_label)))
      [] ast.tag = "AST_WHILE" ->
           LET loop_body_label      == LabelName(g.loop_index)
               loop_condition_label == LabelName(g.loop_index + 1)
           IN  Bind(add_instruction(next_label(next_label(g)),
                        Instruction("HINS_JUMP", <<LabelOp(loop_condition_label)>>)),
               LAMBDA g2 :
               Bind(GenStmt(define_label(g2, loop_body_label), tabs, ast.kids[2]),
               LAMBDA g4 :
                   visit_compare(define_label(g4, loop_condition_label), tabs,
                                 ast.kids[1], FALSE, loop_body_label))))

----------------------------------------------------------------------------
(* Assembly lowering (AssemblyCodeGen) *)

WORD_SIZE == 8

MReg(r)                == [kind |-> "OPERAND_MREG", val |-> r]
MRegMemref(r)          == [kind |-> "OPERAND_MREG_MEMREF", val |-> r]
MRegMemrefOffset(r, d) == [kind |-> "OPERAND_MREG_MEMREF_OFFSET", val |-> r, off |-> d]
DataLabel(name)        == [kind |-> "OPERAND_LABEL", val |-> name]

total_storage_no_pad(S, V) == S + (V * WORD_SIZE)

total_storage_always_pad(S, V) == S + (V * WORD_SIZE) + 8

\* AssemblyCodeGen::AssemblyCodeGen: total_storage_size
total_storage(S, V) ==
    LET total == S + (V * WORD_SIZE)
    IN  IF total % 16 = 0 THEN total + 8 ELSE total

\* the stack slot of a virtual register: S + 8N off %rsp
Slot(S, op) == MRegMemrefOffset("rsp", S + (get_base_reg(op) * WORD_SIZE))

get_mreg_operand(S, op) ==
    IF op.kind = "OPERAND_INT_LITERAL" THEN op ELSE Slot(S, op)

MulArg_no_deref(S, arg, reg) ==
    <<Instruction("MINS_MOVQ",
                  <<IF has_base_reg(arg) THEN Slot(S, arg) ELSE arg, MReg(reg)>>)>>

\* one operand of HINS_INT_MUL into a scratch register
MulArg(S, arg, reg) ==
    <<Instruction("MINS_MOVQ",
                  <<IF has_base_reg(arg) THEN Slot(S, arg) ELSE arg, MReg(reg)>>)>>
    \o (IF is_memref(arg)
        THEN <<Instruction("MINS_MOVQ", <<MRegMemref(reg), MReg(reg)>>)>>
        ELSE <<>>)

DivMod_always_rax(S, hin, result) ==
    <<Instruction("MINS_MOVQ", <<Slot(S, hin.operands[2]), MReg("rax")>>),
      Instruction("MINS_CQTO", <<>>),
      Instruction("MINS_MOVQ", <<Slot(S, hin.operands[3]), MReg("r10")>>),
      Instruction("MINS_IDIVQ", <<MReg("r10")>>),
      Instruction("MINS_MOVQ", <<MReg("rax"), Slot(S, hin.operands[1])>>)>>

DivMod(S, hin, result) ==
    <<Instruction("MINS_MOVQ", <<Slot(S, hin.operands[2]), MReg("rax")>>),
      Instruction("MINS_CQTO", <<>>),
      Instruction("MINS_MOVQ", <<Slot(S, hin.operands[3]), MReg("r10")>>),
      Instruction("MINS_IDIVQ", <<MReg("r10")>>),
      Instruction("MINS_MOVQ", <<MReg(result), Slot(S, hin.operands[1])>>)>>

JumpMins_no_jump(opcode) ==
    CASE opcode = "HINS_JUMP" -> "MINS_NOP"
      [] opcode = "HINS_JE"   -> "MINS_JE"
      [] opcode = "HINS_JNE"  -> "MINS_JNE"
      [] opcode = "HINS_JLT"  -> "MINS_JL"
      [] opcode = "HINS_JLTE" -> "MINS_JLE"
      [] opcode = "HINS_JGT"  -> "MINS_JG"
      [] opcode = "HINS_JGTE" -> "MINS_JGE"

JumpMins(opcode) ==
    CASE opcode = "HINS_JUMP" -> "MINS_JMP"
      [] opcode = "HINS_JE"   -> "MINS_JE"
      [] opcode = "HINS_JNE"  -> "MINS_JNE"
      [] opcode = "HINS_JLT"  -> "MINS_JL"
      [] opcode = "HINS_JLTE" -> "MINS_JLE"
      [] opcode = "HINS_JGT"  -> "MINS_JG"
      [] opcode = "HINS_JGTE" -> "MINS_JGE"

JumpOpcodes ==
    {"HINS_JUMP", "HINS_JE", "HINS_JNE", "HINS_JLT", "HINS_JLTE", "HINS_JGT", "HINS_JGTE"}

\* the switch of translate_instructions: the machine instructions of one
\* high-level instruction
Translate(S, hin) ==
    CASE hin.opcode = "HINS_LOCALADDR" ->
           <<Instruction("MINS_LEAQ",
                 <<MRegMemrefOffset("rsp", hin.operands[2].val), MReg("r10")>>),
             Instruction("MINS_MOVQ", <<MReg("r10"), Slot(S, hin.operands[1])>>)>>
      [] hin.opcode = "HINS_LOAD_INT" ->
           LET rhs == hin.operands[2]
               loadsrc == IF rhs.kind = "OPERAND_INT_LITERAL" THEN rhs ELSE Slot(S, rhs)
           IN  <<Instruction("MINS_MOVQ", <<loadsrc, MReg("r11")>>)>>
               \o (IF rhs.kind # "OPERAND_INT_LITERAL"
                   THEN <<Instruction("MINS_MOVQ", <<MRegMemref("r11"), MReg("r11")>>)>>
                   ELSE <<>>)
               \o <<Instruction("MINS_MOVQ", <<MReg("r11"), Slot(S, hin.operands[1])>>)>>
      [] hin.opcode = "HINS_LOAD_ICONST" ->
           <<Instruction("MINS_MOVQ",
                 <<hin.operands[2], get_mreg_operand(S, hin.operands[1])>>)>>
      [] hin.opcode = "HINS_STORE_INT" ->
           <<Instruction("MINS_MOVQ", <<Slot(S, hin.operands[2]), MReg("r11")>>),
             Instruction("MINS_MOVQ", <<Slot(S, hin.operands[1]), MReg("r10")>>),
             Instruction("MINS_MOVQ", <<MReg("r11"), MRegMemref("r10")>>)>>
      [] hin.opcode = "HINS_WRITE_INT" ->
           <<Instruction("MINS_MOVQ", <<DataLabel("s_writeint_fmt"), MReg("rdi")>>),
             Instruction("MINS_MOVQ", <<Slot(S, hin.operands[1]), MReg("rsi")>>),
             Instruction("MINS_CALL", <<LabelOp("printf")>>)>>
      [] hin.opcode = "HINS_READ_INT" ->
           <<Instruction("MINS_MOVQ", <<DataLabel("s_readint_fmt"), MReg("rdi")>>),
             Instruction("MINS_LEAQ", <<Slot(S, hin.operands[1]), MReg("rsi")>>),
             Instruction("MINS_CALL", <<LabelOp("scanf")>>)>>
      [] hin.opcode = "HINS_INT_ADD" ->
           <<Instruction("MINS_MOVQ", <<Slot(S, hin.operands[2]), MReg("r11")>>),
             Instruction("MINS_MOVQ", <<Slot(S, hin.operands[3]), MReg("r10")>>),
             Instruction("MINS_ADDQ", <<MReg("r11"), MReg("r10")>>),
             Instruction("MINS_MOVQ", <<MReg("r10"), Slot(S, hin.operands[1])>>)>>
      [] hin.opcode = "HINS_INT_SUB" ->
           <<Instruction("MINS_MOVQ", <<Slot(S, hin.operands[2]), MReg("r10")>>),
             Instruction("MINS_MOVQ", <<Slot(S, hin.operands[3]), MReg("r11")>>),
             Instruction("MINS_SUBQ", <<MReg("r11"), MReg("r10")>>),
             Instruction("MINS_MOVQ", <<MReg("r10"), Slot(S, hin.operands[1])>>)>>
      [] hin.opcode = "HINS_INT_MUL" ->
           MulArg(S, hin.operands[2], "r11")
           \o MulArg(S, hin.operands[3], "r10")
           \o <<Instruction("MINS_IMULQ", <<MReg("r11"), MReg("r10")>>),
                Instruction("MINS_MOVQ", <<MReg("r10"), Slot(S, hin.operands[1])>>)>>
      [] hin.opcode = "HINS_INT_DIV" -> DivMod(S, hin, "rax")
      [] hin.opcode = "HINS_INT_MOD" -> DivMod(S, hin, "rdx")
      [] hin.opcode = "HINS_INT_COMPARE" ->
           <<Instruction("MINS_MOVQ", <<get_mreg_operand(S, hin.operands[1]), MReg("r10")>>),
             Instruction("MINS_MOVQ", <<get_mreg_operand(S, hin.operands[2]), MReg("r11")>>),
             Instruction("MINS_CMPQ", <<MReg("r11"), MReg("r10")>>)>>
      [] hin.opcode \in JumpOpcodes ->
           <<Instruction(JumpMins(hin.opcode), <<hin.operands[1]>>)>>
      [] hin.opcode = "HINS_NOP" -> <<Instruction("MINS_NOP", <<>>)>>
      [] OTHER -> <<>>

EmptySequence == [code |-> <<>>, labels |-> <<>>]

translate_one_label_after(asm, hins, S, i) ==
    Bind([asm EXCEPT !.code = @ \o Translate(S, hins.code[i + 1])], LAMBDA a1 :
        IF has_label(hins, i) THEN define_label(a1, hins.labels[i]) ELSE a1)

\* the body of the loop of translate_instructions for instruction i (from 0):
\* its label, if any, then its machine instructions
translate_one(asm, hins, S, i) ==
    [(IF has_label(hins, i) THEN define_label(asm, hins.labels[i]) ELSE asm)
        EXCEPT !.code = @ \o Translate(S, hins.code[i + 1])]

\* the loop of translate_instructions over the instructions lo .. hi - 1
RECURSIVE translate_range(_, _, _, _, _)
translate_range(asm, hins, S, lo, hi) ==
    IF hi <= lo THEN asm
    ELSE IF hi = lo + 1 THEN translate_one(asm, hins, S, lo)
    ELSE Bind(translate_range(asm, hins, S, lo, (lo + hi) \div 2),
         LAMBDA a1 : translate_range(a1, hins, S, (lo + hi) \div 2, hi))

\* translate_instructions: the loop, and the label at the end
translate_instructions(asm, hins, S) ==
    Bind(translate_range(asm, hins, S, 0, Len(hins.code)), LAMBDA a1 :
        IF has_label_at_end(hins)
        THEN define_label(a1, hins.labels[Len(hins.code)]) ELSE a1)

\* emit_preamble, emit_asm, emit_epilogue: the instructions of main
emit(asm, frame) ==
    <<Instruction("MINS_SUBQ", <<IntLit(frame), MReg("rsp")>>)>>
    \o asm.code
    \o <<Instruction("MINS_ADDQ", <<IntLit(frame), MReg("rsp")>>),
         Instruction("MINS_MOVL", <<IntLit(0), MReg("eax")>>),
         Instruction("MINS_RET", <<>>)>>

----------------------------------------------------------------------------
(* Inputs of the semantic pass *)

Lexemes == {<<2>>}

SimpleTypeNodes ==
    {NamedType("INTEGER")}
    \cup {NamedType(n) : n \in Names}
    \cup {ArrayType(l, NamedType("INTEGER")) : l \in Lexemes}

NameLists == {<<n>> : n \in Names} \cup {<<"x", "y">>}

Atoms == {IntLiteral(<<1, 2>>)} \cup {VarRef(n) : n \in Names}

SemExprs ==
    Atoms
    \cup {BinaryOp("AST_ADD", VarRef("x"), i) : i \in Atoms}
    \cup {ArrayElementRef("y", i) : i \in Atoms}

----------------------------------------------------------------------------
(* The state of a fresh HighLevelCodeGen *)

GenInit ==
    /\ m_vreg = -1
    /\ m_vreg_max = -1
    /\ loop_index = 0
    /\ code = <<>>
    /\ labels = <<>>
    /\ nstmt = 0

\* before AssemblyCodeGen is constructed
AsmInit ==
    /\ assembly = EmptySequence
    /\ local_storage_size = 0
    /\ num_vreg = 0
    /\ total_storage_size = 0
    /\ main = <<>>

NoProgram == [decls |-> <<>>, stmts |-> <<>>]

NoFlags == [def |-> FALSE, zf |-> FALSE, lt |-> FALSE]

NoPrior == [done |-> FALSE, phase |-> "none", branches |-> <<>>, out |-> <<>>]

\* before the interpreter is started
NoInterp == [envs |-> <<>>, err |-> "none", n |-> 0, last |-> [op |-> "none"]]

\* before a compiled program is started
RunInit ==
    /\ program = NoProgram
    /\ top = 0
    /\ pc = 0
    /\ regs = <<>>
    /\ mem = <<>>
    /\ flags = NoFlags
    /\ out = <<>>
    /\ ninput = 0
    /\ branches = <<>>
    /\ steps = 0
    /\ prior = NoPrior
    /\ entry = <<>>
    /\ interp = NoInterp

----------------------------------------------------------------------------
(* Actions of the semantic pass *)

SemInit ==
    /\ phase = "sem"
    /\ scopes = <<SymbolTable(<<>>, NullScope)>>
    /\ scope = 1
    /\ curr_offset = 0
    /\ pending = <<>>
    /\ err = "none"
    /\ ndecl = 0
    /\ lastDecl = [names |-> <<>>, scope |-> 1, seq |-> 0]
    /\ annot = IntLiteral(<<>>)
    /\ listing = NoListing
    /\ GenInit
    /\ AsmInit
    /\ RunInit

Halt_continue(e, p) == p

\* err_fatal: the message is written and the process ends
Halt(e, p) == IF e = "none" THEN p ELSE "halted"

\* visit_constant_def, visit_var_def, visit_type_def with a type that is not
\* a RECORD (a CONST is defined by an integer literal): the children first,
\* then the names
visit_def(b0, kind, names, typeNode) ==
    Bind(b0, LAMBDA b :
    Bind(SemVisit(b.tabs, b.scope, typeNode), LAMBDA right :
        IF right.err # "none" THEN [b EXCEPT !.err = right.err]
        ELSE DefineNames(b, names, right.node.type, kind)))

Define(kind, names, typeNode) ==
    /\ phase = "sem"
    /\ ndecl + Len(pending) < MaxDecls
    /\ \E b \in {visit_def(Builder, kind, names, typeNode)} :
           /\ scopes' = b.tabs
           /\ curr_offset' = b.curr_offset
           /\ err' = b.err
           /\ phase' = Halt(b.err, "sem")
    /\ annot' = SemVisit(scopes, scope, typeNode).node
    /\ ndecl' = ndecl + 1
    /\ lastDecl' = [names |-> names, scope |-> scope, seq |-> ndecl + 1]
    /\ UNCHANGED <<scope, pending, listing, restvars>>

DefineConst == \E n \in Names : Define("CONST", <<n>>, IntLiteral(<<1>>))
DefineVar   == \E ns \in NameLists, t \in SimpleTypeNodes : Define("VARIABLE", ns, t)
DefineType  == \E n \in Names, t \in SimpleTypeNodes : Define("TYPE", <<n>>, t)

\* visit_record_type, first half: a nested scope becomes the current one
BeginRecord ==
    /\ phase = "sem"
    /\ ndecl + Len(pending) < MaxDecls
    /\ Len(pending) < MaxDepth
    /\ \E kind \in {"VARIABLE", "TYPE"}, n \in Names, dims \in {<<>>, <<(<<2>>)>>} :
          /\ pending' = Append(pending, [kind |-> kind, names |-> <<n>>, dims |-> dims])
    /\ scopes' = Append(scopes, SymbolTable(scopes, scope))
    /\ scope' = Len(scopes) + 1
    /\ UNCHANGED <<phase, curr_offset, err, ndecl, lastDecl, annot, listing, restvars>>

\* visit_record_type, second half, and the definition the RECORD belongs to
EndRecord ==
    /\ phase = "sem"
    /\ pending # <<>>
    /\ LET p      == pending[Len(pending)]
           outer  == scopes[scope].parent
           type   == WrapArrays(p.dims, type_create_record(scopes, scope))
       IN  \E b \in {DefineNames([Builder EXCEPT !.scope = outer], p.names, type, p.kind)} :
           /\ scopes' = b.tabs
           /\ scope' = outer
           /\ curr_offset' = b.curr_offset
           /\ err' = b.err
           /\ phase' = Halt(b.err, "sem")
           /\ annot' = [Node("AST_RECORD_TYPE", "", <<>>, <<>>) EXCEPT
                           !.type = type_create_record(scopes, scope)]
           /\ lastDecl' = [names |-> p.names, scope |-> outer, seq |-> ndecl + 1]
    /\ pending' = SubSeq(pending, 1, Len(pending) - 1)
    /\ ndecl' = ndecl + 1
    /\ UNCHANGED <<listing, restvars>>

\* the visit of one expression of the instructions part
VisitExpr ==
    /\ phase \in {"sem", "sem_stmt"}
    /\ ndecl < MaxDecls
    /\ pending = <<>>
    /\ \E e \in SemExprs :
          \E r \in {SemVisit(scopes, scope, e)} :
              /\ annot' = r.node
              /\ err' = r.err
              /\ phase' = Halt(r.err, "sem_stmt")
    /\ ndecl' = ndecl + 1
    /\ UNCHANGED <<scopes, scope, curr_offset, pending, lastDecl, listing, restvars>>

\* Context::build_symtab with the flag -s, after the visit of the program:
\* the global scope is printed
PrintSymTab ==
    /\ phase \in {"sem", "sem_stmt"}
    /\ pending = <<>>
    /\ \E rk \in Kinds, ub \in {"fault", "empty"} :
          \E r \in {print_sym_tab(scopes, GlobalScope, rk, ub)} :
              /\ listing' = [r EXCEPT !.done = TRUE]
              /\ phase' = IF r.fault THEN "fault" ELSE "sem_done"
    /\ UNCHANGED <<scopes, scope, curr_offset, pending, err, ndecl, lastDecl, annot,
                   restvars>>

\* the statements the code generator is given after the semantic pass: none
\* when no expression was visited, else WRITE of the expression visited last
\* (an array element reference is not taken up)
Visited ==
    IF phase = "sem_stmt" /\ annot.tag # "AST_ARRAY_ELEMENT_REF"
    THEN <<[tag |-> "AST_WRITE", str |-> "", lex |-> <<>>, kids |-> <<annot>>,
            type |-> NullType, ival |-> 0]>>
    ELSE <<>>

\* Context::gen_code with the flag -c, called after Context::build_symtab has
\* returned: code generation, lowering and emission of the visited program
GenCode ==
    /\ phase \in {"sem", "sem_stmt", "sem_done"}
    /\ pending = <<>>
    /\ \E g \in {GenSeq([vreg |-> -1, vreg_max |-> -1, loop_index |-> 0,
                          code |-> <<>>, labels |-> <<>>], scopes, Visited)} :
       \E S \in {get_total_size(scopes, GlobalScope)}, V \in {get_vreg_max(g)} :
       \E asm \in {translate_instructions(EmptySequence, g, S)} :
           /\ m_vreg' = g.vreg
           /\ m_vreg_max' = g.vreg_max
           /\ loop_index' = g.loop_index
           /\ code' = g.code
           /\ labels' = g.labels
           /\ nstmt' = Len(Visited)
           /\ local_storage_size' = S
           /\ num_vreg' = V
           /\ total_storage_size' = total_storage(S, V)
           /\ assembly' = asm
           /\ main' = emit(asm, total_storage(S, V))
    /\ phase' = "asm"
    /\ UNCHANGED <<semvars, runvars>>

SemNext ==
    \/ PrintSymTab
    \/ GenCode
    \/ DefineConst
    \/ DefineVar
    \/ DefineType
    \/ BeginRecord
    \/ EndRecord
    \/ VisitExpr

SpecSem == SemInit /\ [][SemNext]_vars

----------------------------------------------------------------------------
(* Inputs of the code generator: declarations and statements *)

Assign(l, r)         == Node("AST_ASSIGN", "", <<>>, <<l, r>>)
Read(v)              == Node("AST_READ", "", <<>>, <<v>>)
Write(e)             == Node("AST_WRITE", "", <<>>, <<e>>)
Instructions(stmts)  == Node("AST_INSTRUCTIONS", "", <<>>, stmts)
If(c, body)          == Node("AST_IF", "", <<>>, <<c, Instructions(body)>>)
IfElse(c, body, alt) ==
    Node("AST_IF_ELSE", "", <<>>, <<c, Instructions(body), Instructions(alt)>>)
While(c, body)       == Node("AST_WHILE", "", <<>>, <<c, Instructions(body)>>)
Repeat(body, c)      == Node("AST_REPEAT", "", <<>>, <<Instructions(body), c>>)

VarDef(names, typeNode) == [kind |-> "VARIABLE", names |-> names, type |-> typeNode]

IntegerNode == NamedType("INTEGER")

DeclLists ==
    {<<>>,
     <<VarDef(<<"x">>, IntegerNode)>>,
     <<VarDef(<<"x", "y">>, IntegerNode)>>,
     <<VarDef(<<"a">>, ArrayType(<<2>>, IntegerNode)), VarDef(<<"x", "y">>, IntegerNode)>>}

RECURSIVE RunDecls(_, _)
RunDecls(b0, decls) ==
    Bind(b0, LAMBDA b :
        IF decls = <<>> \/ b.err # "none" THEN b
        ELSE RunDecls(visit_def(b, Head(decls).kind, Head(decls).names, Head(decls).type),
                      Tail(decls)))

FreshBuilder ==
    [tabs |-> <<SymbolTable(<<>>, NullScope)>>, scope |-> GlobalScope,
     curr_offset |-> 0, err |-> "none"]

X == VarRef("x")
Y == VarRef("y")
Lit(d) == IntLiteral(<<d>>)

SimpleStmts ==
    {Assign(X, Lit(5)),
     Assign(X, Y),
     Assign(Y, BinaryOp("AST_ADD", X, Lit(1))),
     Assign(ArrayElementRef("a", X),
            BinaryOp("AST_MULTIPLY", BinaryOp("AST_SUBTRACT", Y, Lit(1)),
                                     ArrayElementRef("a", Lit(1)))),
     Read(X),
     Write(Lit(7)),
     Write(X)}

Control(c, s, t) ==
    {If(c, <<s>>), IfElse(c, <<s>>, <<t>>), IfElse(c, <<t>>, <<s>>),
     While(c, <<s>>), Repeat(<<s>>, c)}

Cond1 == BinaryOp("AST_COMPARE_LT", X, Lit(3))
Cond2 == BinaryOp("AST_COMPARE_EQ", Lit(1), Lit(1))

Nested1 ==
    Control(Cond1, Write(Lit(7)), Read(X))
    \cup {If(Cond2, <<Write(Lit(7))>>), While(Cond2, <<Write(Lit(7))>>)}

Nested2 ==
    UNION {Control(Cond1, k, Write(X)) :
              k \in {If(Cond1, <<Write(Lit(7))>>),
                     IfElse(Cond1, <<Write(Lit(7))>>, <<Read(X)>>),
                     While(Cond1, <<Write(Lit(7))>>)}}

GenStmts == SimpleStmts \cup Nested1 \cup Nested2

----------------------------------------------------------------------------
(* Code generation and lowering of a program (Context::gen_code) *)

MaxStmts == 2       \* statements of the program's instructions part

GenSpecInit ==
    /\ phase = "gen_decl"
    /\ \E d \in DeclLists : \E b \in {RunDecls(FreshBuilder, d)} :
          /\ scopes = b.tabs
          /\ curr_offset = b.curr_offset
          /\ ndecl = Len(d)
          /\ program = [decls |-> d, stmts |-> <<>>]
    /\ scope = GlobalScope
    /\ pending = <<>>
    /\ err = "none"
    /\ lastDecl = [names |-> <<>>, scope |-> GlobalScope, seq |-> 0]
    /\ annot = IntLiteral(<<>>)
    /\ listing = NoListing
    /\ GenInit
    /\ AsmInit
    /\ top = 0
    /\ pc = 0
    /\ regs = <<>>
    /\ mem = <<>>
    /\ flags = NoFlags
    /\ out = <<>>
    /\ ninput = 0
    /\ branches = <<>>
    /\ steps = 0
    /\ prior = NoPrior
    /\ entry = <<>>
    /\ interp = NoInterp

\* HighLevelCodeGen::visit on the declarations part of the program
GenDeclarations ==
    /\ phase = "gen_decl"
    /\ \E g \in {visit_declarations(CodeGen, scopes, program.decls)} :
          /\ m_vreg' = g.vreg
          /\ m_vreg_max' = g.vreg_max
          /\ loop_index' = g.loop_index
          /\ code' = g.code
          /\ labels' = g.labels
    /\ phase' = "gen"
    /\ UNCHANGED <<nstmt, semvars, asmvars, runvars>>

\* HighLevelCodeGen::visit on the next statement of the instructions part,
\* which the semantic pass has accepted and annotated
GenStatement ==
    /\ phase = "gen"
    /\ nstmt < MaxStmts
    /\ \E st \in GenStmts : \E typed \in {SemVisit(scopes, GlobalScope, st)} :
          /\ typed.err = "none"
          /\ \E g \in {GenStmt(CodeGen, scopes, typed.node)} :
                 /\ m_vreg' = g.vreg
                 /\ m_vreg_max' = g.vreg_max
                 /\ loop_index' = g.loop_index
                 /\ code' = g.code
                 /\ labels' = g.labels
    /\ nstmt' = nstmt + 1
    /\ UNCHANGED <<phase, semvars, asmvars, runvars>>

\* AssemblyCodeGen::AssemblyCodeGen, translate_instructions and emit
Lower ==
    /\ phase = "gen"
    /\ \E S \in {get_total_size(scopes, GlobalScope)},
          V \in {get_vreg_max(CodeGen)} :
       \E asm \in {translate_instructions(EmptySequence, CodeGen, S)} :
           /\ local_storage_size' = S
           /\ num_vreg' = V
           /\ total_storage_size' = total_storage(S, V)
           /\ assembly' = asm
           /\ main' = emit(asm, total_storage(S, V))
    /\ phase' = "asm"
    /\ UNCHANGED <<semvars, genvars, runvars>>

GenNext ==
    \/ GenDeclarations
    \/ GenStatement
    \/ Lower

SpecGen == GenSpecInit /\ [][GenNext]_vars

----------------------------------------------------------------------------
(* The compiler on a whole program (Context::build_symtab, Context::gen_code) *)

FreshCodeGen ==
    [vreg |-> -1, vreg_max |-> -1, loop_index |-> 0, code |-> <<>>, labels |-> <<>>]

Program(decls, stmts) == [decls |-> decls, stmts |-> stmts]

Compile(p) ==
    Bind(RunDecls(FreshBuilder, p.decls), LAMBDA b :
    Bind(SemVisit(b.tabs, GlobalScope, Instructions(p.stmts)), LAMBDA typed :
    Bind(GenStmt(visit_declarations(FreshCodeGen, b.tabs, p.decls), b.tabs, typed.node),
    LAMBDA g :
    Bind(translate_instructions(EmptySequence, g, get_total_size(b.tabs, GlobalScope)),
    LAMBDA asm :
        LET S == get_total_size(b.tabs, GlobalScope)
            V == get_vreg_max(g)
        IN  [b |-> b, typed |-> typed, g |-> g, S |-> S, V |-> V, asm |-> asm,
             frame |-> total_storage(S, V),
             main |-> emit(asm, total_storage(S, V))]))))

MachineJumps ==
    {"MINS_JMP", "MINS_JE", "MINS_JNE", "MINS_JL", "MINS_JLE", "MINS_JG", "MINS_JGE"}

\* the emitted text assembles: every label a jump names is defined in it
Linkable(seq) ==
    \A i \in 1..Len(seq.code) :
        seq.code[i].opcode \in MachineJumps =>
            \E k \in DOMAIN seq.labels : seq.labels[k] = seq.code[i].operands[1].val

----------------------------------------------------------------------------
(* Execution of the emitted instructions of main *)

MaxSteps == 128     \* machine instructions executed in one run

\* %rsp at the entry of main is 8 mod 16; the format strings lie in .rodata
StackTops == {4104, 8200}
DataAddr == [s_readint_fmt |-> 16, s_writeint_fmt |-> 24]

\* what an uninitialised stack word or a clobbered register may hold, and what
\* the input may hold
Junk == {0, 7}
Inputs == {0, 3}

CallerSaved == {"rax", "rdx", "rdi", "rsi", "r10", "r11"}

Machine ==
    [phase |-> phase, pc |-> pc, regs |-> regs, mem |-> mem, flags |-> flags,
     out |-> out, ninput |-> ninput, branches |-> branches]

RegName(r) == IF r = "eax" THEN "rax" ELSE r

IsMem(op) == op.kind \in {"OPERAND_MREG_MEMREF", "OPERAND_MREG_MEMREF_OFFSET"}

RegVal(m, r, j) == IF RegName(r) \in DOMAIN m.regs THEN m.regs[RegName(r)] ELSE j

\* the address a memory operand names
EA(m, op, j) ==
    RegVal(m, op.val, j) + (IF op.kind = "OPERAND_MREG_MEMREF_OFFSET" THEN op.off ELSE 0)

\* the words of the frame of main
InFrame(a) == a >= top - total_storage_size /\ a + 8 <= top /\ (top - a) % 8 = 0

SetReg(m, r, v) == [m EXCEPT !.regs = (RegName(r) :> v) @@ @]

SetMem(m, a, v) == [m EXCEPT !.mem = (a :> v) @@ @]

\* a location read before it was written holds j from then on
Touch(m, op, j) ==
    IF IsMem(op) /\ EA(m, op, j) \notin DOMAIN m.mem THEN SetMem(m, EA(m, op, j), j)
    ELSE IF op.kind = "OPERAND_MREG" /\ RegName(op.val) \notin DOMAIN m.regs
    THEN SetReg(m, op.val, j)
    ELSE m

Val(m, op, j) ==
    CASE op.kind = "OPERAND_INT_LITERAL" -> op.val
      [] op.kind = "OPERAND_MREG"        -> RegVal(m, op.val, j)
      [] op.kind = "OPERAND_LABEL"       -> DataAddr[op.val]
      [] IsMem(op) -> IF EA(m, op, j) \in DOMAIN m.mem THEN m.mem[EA(m, op, j)] ELSE j

Put(m, op, v, j) ==
    IF IsMem(op) THEN SetMem(m, EA(m, op, j), v) ELSE SetReg(m, op.val, v)

\* an access outside the frame of main
Wild(m, ops, j) == \E i \in DOMAIN ops : IsMem(ops[i]) /\ ~InFrame(EA(m, ops[i], j))

Fault(m) == [m EXCEPT !.phase = "fault"]

Advance(m) == [m EXCEPT !.pc = @ + 1]

\* movq, movl, leaq (source, destination)
move(m, ins, j) ==
    LET src == ins.operands[1]
        dst == ins.operands[2]
    IN  IF ins.opcode = "MINS_LEAQ" THEN Advance(SetReg(m, dst.val, EA(m, src, j)))
        ELSE IF Wild(m, ins.operands, j) THEN Fault(m)
        ELSE Bind(Touch(m, src, j), LAMBDA m1 : Advance(Put(m1, dst, Val(m1, src, j), j)))

Abs(v) == IF v < 0 THEN -v ELSE v

\* the least value of a quadword, as LONG_MAX stands for the greatest
LONG_MIN == -LONG_MAX - 1

\* addq: the sum of two quadwords, modulo the width of a quadword
WrapAdd(a, b) ==
    IF a > 0 /\ b > 0 /\ a > LONG_MAX - b
    THEN (a - LONG_MAX - 1) + (b - LONG_MAX - 1)
    ELSE IF a < 0 /\ b < 0 /\ a < LONG_MIN - b
    THEN (a + LONG_MAX + 1) + (b + LONG_MAX + 1)
    ELSE a + b

WrapNeg(a) == IF a = LONG_MIN THEN LONG_MIN ELSE -a

\* subq: the difference of two quadwords, modulo the width of a quadword
WrapSub(a, b) == WrapAdd(a, WrapNeg(b))

\* imulq: the low quadword of the product, summed from the products of the
\* halves of the operands so that no intermediate result leaves the quadword
WrapMul(a, b) ==
    LET H     == 65536      \* H * H is the number of quadwords
        Q     == 256        \* Q * Q = H
        al    == a % H
        ah    == a \div H
        bl    == b % H
        bh    == b \div H
        p0    == (al % Q) * bl
        p1    == (al \div Q) * bl
        low   == (p1 % Q) * Q + p0
        carry == (p1 \div Q) + (low \div H)
        hi    == (((ah * bl) % H) + ((al * bh) % H) + carry) % H
    IN  IF hi >= H \div 2 THEN (hi - H) * H + (low % H) ELSE hi * H + (low % H)

\* the quotient of a by d > 0, truncated toward zero
Truncated(a, d) ==
    IF a < 0 /\ a % d # 0 THEN (a \div d) + 1 ELSE a \div d

\* idivq raises #DE when the divisor is 0 or the quotient is not a quadword
DivideError(a, d) == d = 0 \/ (a = LONG_MIN /\ d = -1)

\* idivq: the quotient truncated toward zero and the remainder
Quotient(a, d) ==
    IF d > 0 THEN Truncated(a, d)
    ELSE IF d = LONG_MIN THEN (IF a = LONG_MIN THEN 1 ELSE 0)
    ELSE -Truncated(a, -d)

Remainder(a, d) == WrapSub(a, WrapMul(d, Quotient(a, d)))

\* addq, subq, imulq (source, destination), cqto, idivq
arith(m, ins, j) ==
    LET undef == [m EXCEPT !.flags = NoFlags] IN
    CASE ins.opcode \in {"MINS_ADDQ", "MINS_SUBQ", "MINS_IMULQ"} ->
           Bind(Touch(Touch(undef, ins.operands[1], j), ins.operands[2], j), LAMBDA m1 :
               LET s == Val(m1, ins.operands[1], j)
                   d == Val(m1, ins.operands[2], j)
                   v == CASE ins.opcode = "MINS_ADDQ"  -> WrapAdd(d, s)
                          [] ins.opcode = "MINS_SUBQ"  -> WrapSub(d, s)
                          [] ins.opcode = "MINS_IMULQ" -> WrapMul(d, s)
               IN  Advance(Put(m1, ins.operands[2], v, j)))
      [] ins.opcode = "MINS_CQTO" ->
           Bind(Touch(undef, MReg("rax"), j), LAMBDA m1 :
               Advance(SetReg(m1, "rdx", IF m1.regs["rax"] < 0 THEN -1 ELSE 0)))
      [] ins.opcode = "MINS_IDIVQ" ->
           Bind(Touch(Touch(undef, MReg("rax"), j), ins.operands[1], j), LAMBDA m1 :
               LET d == Val(m1, ins.operands[1], j)
                   a == m1.regs["rax"]
               IN  IF DivideError(a, d) THEN Fault(m1)
                   ELSE Advance(SetReg(SetReg(m1, "rax", Quotient(a, d)),
                                       "rdx", Remainder(a, d))))

\* cmpq source, destination: the flags of destination - source
compare(m, ins, j) ==
    Bind(Touch(Touch(m, ins.operands[1], j), ins.operands[2], j), LAMBDA m1 :
        LET s == Val(m1, ins.operands[1], j)
            d == Val(m1, ins.operands[2], j)
        IN  Advance([m1 EXCEPT !.flags = [def |-> TRUE, zf |-> d = s, lt |-> d < s]]))

Conditional == MachineJumps \ {"MINS_JMP"}

Taken(opcode, f) ==
    CASE opcode = "MINS_JMP" -> TRUE
      [] opcode = "MINS_JE"  -> f.zf
      [] opcode = "MINS_JNE" -> ~f.zf
      [] opcode = "MINS_JL"  -> f.lt
      [] opcode = "MINS_JLE" -> f.lt \/ f.zf
      [] opcode = "MINS_JG"  -> ~f.lt /\ ~f.zf
      [] opcode = "MINS_JGE" -> ~f.lt

\* the index in main of the instruction a label stands before
Target(l) == (CHOOSE i \in DOMAIN assembly.labels : assembly.labels[i] = l) + 1

\* jmp and the conditional jumps; any is the outcome when the flags are undefined
jump(m, ins, any) ==
    LET t == IF ins.opcode \in Conditional /\ ~m.flags.def THEN any
             ELSE Taken(ins.opcode, m.flags)
    IN  [m EXCEPT !.pc = IF t THEN Target(ins.operands[1].val) ELSE @ + 1,
                  !.branches = IF ins.opcode \in Conditional THEN Append(@, t) ELSE @]

RECURSIVE Digits(_)
Digits(v) == IF v < 10 THEN <<v>> ELSE Digits(v \div 10) \o <<v % 10>>

\* the line printf("%ld\n", v) prints
Format(v) ==
    IF v = LONG_MAX THEN [neg |-> FALSE, digits |-> LongMaxDigits]
    ELSE [neg |-> v < 0, digits |-> Digits(Abs(v))]

\* on return the caller-saved registers and the flags hold nothing defined
Clobber(m) ==
    [m EXCEPT !.regs = [r \in (DOMAIN m.regs) \ CallerSaved |-> m.regs[r]],
              !.flags = NoFlags]

\* call printf, call scanf: v is the number on the input, crash the outcome
\* of a call made with a misaligned stack
call(m, ins, j, v, crash) ==
    Bind(Touch(Touch(m, MReg("rdi"), j), MReg("rsi"), j), LAMBDA m1 :
        IF m1.regs["rsp"] % 16 # 0 /\ crash THEN Fault(m1)
        ELSE IF ins.operands[1].val = "printf" /\ m1.regs["rdi"] = DataAddr.s_writeint_fmt
        THEN Advance(Clobber([m1 EXCEPT !.out = Append(@, Format(m1.regs["rsi"]))]))
        ELSE IF /\ ins.operands[1].val = "scanf"
                /\ m1.regs["rdi"] = DataAddr.s_readint_fmt
                /\ InFrame(m1.regs["rsi"])
        THEN Advance(Clobber([SetMem(m1, m1.regs["rsi"], v) EXCEPT !.ninput = @ + 1]))
        ELSE Fault(m1))

\* ret: main returns to its caller when %rsp is back at its entry value
return(m) == [m EXCEPT !.phase = IF m.regs["rsp"] = top THEN "exit" ELSE "fault"]

----------------------------------------------------------------------------
(* Programs that are run *)

XY == <<VarDef(<<"x", "y">>, IntegerNode)>>

AXY == <<VarDef(<<"a">>, ArrayType(<<2>>, IntegerNode)), VarDef(<<"x", "y">>, IntegerNode)>>

A1 == ArrayElementRef("a", Lit(1))

WriteLexemes ==
    {<<7>>, <<0, 4, 2>>, <<1, 2, 3, 4, 5, 6, 7, 8, 9>>, [i \in 1..20 |-> 9]}

WritePrograms == {Program(<<>>, <<Write(IntLiteral(l))>>) : l \in WriteLexemes}

AssignRhs ==
    {Lit(4), Y, A1,
     BinaryOp("AST_ADD", Y, Lit(1)),
     BinaryOp("AST_SUBTRACT", Lit(1), Y),
     BinaryOp("AST_MULTIPLY", Y, A1),
     BinaryOp("AST_DIVIDE", BinaryOp("AST_SUBTRACT", Lit(0), Lit(7)), Lit(2)),
     BinaryOp("AST_MODULUS", A1, Y)}

\* y := 5; a[1] := 6; x := rhs
AssignPrograms ==
    {Program(AXY, <<Assign(Y, Lit(5)), Assign(A1, Lit(6)), Assign(X, r)>>) : r \in AssignRhs}

Values == {1, 2, 3}

\* the two operands of a comparison of v with 2
OperandForms(v) == {<<X, Y>>, <<X, Lit(2)>>, <<Lit(v), Y>>}

Comparisons(v) ==
    {BinaryOp(t, o[1], o[2]) : t \in CompareTags, o \in OperandForms(v)}

Controls(c) ==
    {<<IfElse(c, <<Write(Lit(1))>>, <<Write(Lit(0))>>)>>,
     <<While(c, <<Write(Lit(1))>>)>>,
     <<Repeat(<<Write(Lit(1))>>, c)>>,
     <<If(c, <<Write(Lit(1))>>), While(c, <<Write(Lit(1))>>)>>,
     <<IfElse(c, <<Write(Lit(1))>>, <<Write(Lit(0))>>), Write(Lit(9))>>,
     <<If(c, <<Write(Lit(1))>>), Write(Lit(9))>>,
     <<If(c, <<Write(Lit(1))>>)>>}

\* x := v; y := 2; then statements that branch on a comparison of v with 2
ComparePrograms ==
    UNION {{Program(XY, <<Assign(X, Lit(v)), Assign(Y, Lit(2))>> \o s) :
                s \in UNION {Controls(c) : c \in Comparisons(v)}}
           : v \in Values}

\* WRITE x; x := x + 1
CountBody == <<Write(X), Assign(X, BinaryOp("AST_ADD", X, Lit(1)))>>

\* the conditions of the counting loops: operator and right operand
WhileConds ==
    {<<"AST_COMPARE_LTE", 3>>, <<"AST_COMPARE_LT", 3>>, <<"AST_COMPARE_NEQ", 2>>,
     <<"AST_COMPARE_GT", 3>>}

UntilConds ==
    {<<"AST_COMPARE_GT", 3>>, <<"AST_COMPARE_GTE", 3>>, <<"AST_COMPARE_EQ", 2>>,
     <<"AST_COMPARE_LT", 5>>}

\* x := 1; WHILE x op n DO BEGIN WRITE x; x := x + 1 END
\* x := 1; REPEAT WRITE x; x := x + 1 UNTIL x op n
CountPrograms ==
    {Program(XY, <<Assign(X, Lit(1)), While(BinaryOp(c[1], X, Lit(c[2])), CountBody)>>) :
        c \in WhileConds}
    \cup {Program(XY, <<Assign(X, Lit(1)), Repeat(CountBody, BinaryOp(c[1], X, Lit(c[2])))>>) :
        c \in UntilConds}

A3XY == <<VarDef(<<"a">>, ArrayType(<<3>>, IntegerNode)), VarDef(<<"x", "y">>, IntegerNode)>>

\* an index as a literal, a variable and an arithmetic expression, x being i
IndexForms(i) ==
    {Lit(i), X, BinaryOp("AST_SUBTRACT", Lit(2), X), BinaryOp("AST_MULTIPLY", X, Lit(1))}

\* a[0] := 10; a[1] := 11; a[2] := 12; x := i; a[s] := 7; WRITE a[l]
ArrayPrograms ==
    UNION {{Program(A3XY,
                <<Assign(ArrayElementRef("a", Lit(0)), IntLiteral(<<1, 0>>)),
                  Assign(ArrayElementRef("a", Lit(1)), IntLiteral(<<1, 1>>)),
                  Assign(ArrayElementRef("a", Lit(2)), IntLiteral(<<1, 2>>)),
                  Assign(X, Lit(i)),
                  Assign(ArrayElementRef("a", st), Lit(7)),
                  Write(ArrayElementRef("a", ld))>>) :
              st \in IndexForms(i), ld \in IndexForms(i) \cup {Lit(0), Lit(2)}}
           : i \in 0..2}

OtherPrograms ==
    {Program(XY, <<Read(X), Write(X)>>),
     Program(XY, <<Write(X)>>),
     Program(XY, <<If(Cond1, <<If(Cond1, <<Write(Lit(7))>>)>>)>>)}

RunPrograms ==
    WritePrograms \cup AssignPrograms \cup ComparePrograms \cup CountPrograms
    \cup ArrayPrograms \cup OtherPrograms

ControlTags == {"AST_IF", "AST_IF_ELSE", "AST_WHILE", "AST_REPEAT"}

HasComparison(p) == \E i \in DOMAIN p.stmts : p.stmts[i].tag \in ControlTags

MirrorTag(tag) ==
    CASE tag = "AST_COMPARE_LT"  -> "AST_COMPARE_GT"
      [] tag = "AST_COMPARE_GT"  -> "AST_COMPARE_LT"
      [] tag = "AST_COMPARE_LTE" -> "AST_COMPARE_GTE"
      [] tag = "AST_COMPARE_GTE" -> "AST_COMPARE_LTE"
      [] OTHER -> tag

\* b mirror a for a comparison a op b
MirrorComparison(c) == BinaryOp(MirrorTag(c.tag), c.kids[2], c.kids[1])

MirrorStatement(st) ==
    IF st.tag \in {"AST_IF", "AST_IF_ELSE", "AST_WHILE"}
    THEN [st EXCEPT !.kids[1] = MirrorComparison(@)]
    ELSE IF st.tag = "AST_REPEAT" THEN [st EXCEPT !.kids[2] = MirrorComparison(@)]
    ELSE st

Mirrored(p) == [p EXCEPT !.stmts = [i \in DOMAIN p.stmts |-> MirrorStatement(p.stmts[i])]]

----------------------------------------------------------------------------
(* Compiling and running a program *)

RunSpecInit ==
    \E p \in RunPrograms, t \in StackTops : \E c \in {Compile(p)} :
        /\ phase = IF Linkable(c.asm) THEN "run" ELSE "unbuilt"
        /\ scopes = c.b.tabs
        /\ scope = GlobalScope
        /\ curr_offset = c.b.curr_offset
        /\ pending = <<>>
        /\ err = "none"
        /\ ndecl = Len(p.decls)
        /\ lastDecl = [names |-> <<>>, scope |-> GlobalScope, seq |-> 0]
        /\ annot = c.typed.node
        /\ listing = NoListing
        /\ m_vreg = c.g.vreg
        /\ m_vreg_max = c.g.vreg_max
        /\ loop_index = c.g.loop_index
        /\ code = c.g.code
        /\ labels = c.g.labels
        /\ nstmt = Len(p.stmts)
        /\ assembly = c.asm
        /\ local_storage_size = c.S
        /\ num_vreg = c.V
        /\ total_storage_size = c.frame
        /\ main = c.main
        /\ program = p
        /\ top = t
        /\ pc = 0
        /\ regs = ("rsp" :> t)
        /\ mem = <<>>
        /\ flags = NoFlags
        /\ out = <<>>
        /\ ninput = 0
        /\ branches = <<>>
        /\ steps = 0
        /\ prior = NoPrior
        /\ entry = <<>>
        /\ interp = NoInterp

Running == phase = "run" /\ steps < MaxSteps

Current == main[pc + 1]

Commit(n) ==
    /\ phase' = n.phase
    /\ pc' = n.pc
    /\ regs' = n.regs
    /\ mem' = n.mem
    /\ flags' = n.flags
    /\ out' = n.out
    /\ ninput' = n.ninput
    /\ branches' = n.branches
    /\ steps' = steps + 1
    /\ UNCHANGED <<semvars, genvars, asmvars, program, top, prior, entry, interp>>

ExecMove ==
    /\ Running
    /\ Current.opcode \in {"MINS_MOVQ", "MINS_MOVL", "MINS_LEAQ"}
    /\ \E j \in Junk : \E n \in {move(Machine, Current, j)} : Commit(n)

ExecArith ==
    /\ Running
    /\ Current.opcode \in {"MINS_ADDQ", "MINS_SUBQ", "MINS_IMULQ", "MINS_CQTO", "MINS_IDIVQ"}
    /\ \E j \in Junk : \E n \in {arith(Machine, Current, j)} : Commit(n)

ExecCompare ==
    /\ Running
    /\ Current.opcode = "MINS_CMPQ"
    /\ \E j \in Junk : \E n \in {compare(Machine, Current, j)} : Commit(n)

ExecJump ==
    /\ Running
    /\ Current.opcode \in MachineJumps
    /\ \E any \in BOOLEAN : \E n \in {jump(Machine, Current, any)} : Commit(n)

ExecCall ==
    /\ Running
    /\ Current.opcode = "MINS_CALL"
    /\ \E j \in Junk, v \in Inputs, crash \in BOOLEAN :
          \E n \in {call(Machine, Current, j, v, crash)} : Commit(n)

ExecNop ==
    /\ Running
    /\ Current.opcode = "MINS_NOP"
    /\ Commit(Advance(Machine))

ExecRet ==
    /\ Running
    /\ Current.opcode = "MINS_RET"
    /\ Commit(return(Machine))

\* the compiler and the program run again on the program with every
\* comparison mirrored, from the same %rsp
RunMirrored ==
    /\ phase = "exit" \/ (phase = "run" /\ steps = MaxSteps)
    /\ ~prior.done
    /\ ninput = 0
    /\ HasComparison(program)
    /\ \E c \in {Compile(Mirrored(program))} :
          /\ phase' = IF Linkable(c.asm) THEN "run" ELSE "unbuilt"
          /\ annot' = c.typed.node
          /\ m_vreg' = c.g.vreg
          /\ m_vreg_max' = c.g.vreg_max
          /\ loop_index' = c.g.loop_index
          /\ code' = c.g.code
          /\ labels' = c.g.labels
          /\ assembly' = c.asm
          /\ local_storage_size' = c.S
          /\ num_vreg' = c.V
          /\ total_storage_size' = c.frame
          /\ main' = c.main
    /\ program' = Mirrored(program)
    /\ prior' = [done |-> TRUE, phase |-> phase, branches |-> branches, out |-> out]
    /\ pc' = 0
    /\ regs' = ("rsp" :> top)
    /\ mem' = <<>>
    /\ flags' = NoFlags
    /\ out' = <<>>
    /\ ninput' = 0
    /\ branches' = <<>>
    /\ steps' = 0
    /\ UNCHANGED <<scopes, scope, curr_offset, pending, err, ndecl, lastDecl, listing,
                   nstmt, top, entry, interp>>

RunNext ==
    \/ ExecMove
    \/ ExecArith
    \/ ExecCompare
    \/ ExecJump
    \/ ExecCall
    \/ ExecNop
    \/ ExecRet
    \/ RunMirrored

SpecRun == RunSpecInit /\ [][RunNext]_vars

----------------------------------------------------------------------------
(* One arithmetic instruction, lowered and run on a frame of known content *)

ArithV == 3         \* virtual registers vr0 .. vr2 of the frame

\* local storage: two quadwords of variables
ArithS == 2 * WORD_SIZE

ArithOpcodes ==
    {"HINS_INT_ADD", "HINS_INT_SUB", "HINS_INT_MUL", "HINS_INT_DIV", "HINS_INT_MOD"}

\* d, a, b in virtual registers, as visit_add .. visit_modulus emit them; and
\* the product of visit_array_element_ref: a dereferenced index and a literal
\* element size
ArithInstructions ==
    {Instruction(o, <<VReg(d), VReg(a), VReg(b)>>) :
        o \in ArithOpcodes, d \in 0..(ArithV - 1), a \in 0..1, b \in 0..1}
    \cup {Instruction("HINS_INT_MUL", <<VReg(d), to_memref(VReg(2)), IntLit(WORD_SIZE)>>) :
              d \in 0..(ArithV - 1)}

ArithValues == {-7, 0, 2, 3, LONG_MAX, LONG_MIN}

\* the frame at entry: the variables hold 11 and 12, vr0 and vr1 the two
\* values, the other virtual registers the address of the first variable
ArithFrame(base, va, vb) ==
    (base :> 11) @@ (base + WORD_SIZE :> 12)
    @@ (base + ArithS :> va) @@ (base + ArithS + WORD_SIZE :> vb)
    @@ [x \in {base + ArithS + n * WORD_SIZE : n \in 2..(ArithV - 1)} |-> base]

ArithInit ==
    \E hin \in ArithInstructions, va \in ArithValues, vb \in ArithValues, t \in StackTops :
    \E asm \in {translate_instructions(EmptySequence,
                                        [code |-> <<hin>>, labels |-> <<>>], ArithS)} :
    \E frame \in {total_storage(ArithS, ArithV)} :
        /\ phase = "run"
        /\ scopes = <<SymbolTable(<<>>, NullScope)>>
        /\ scope = 1
        /\ curr_offset = ArithS
        /\ pending = <<>>
        /\ err = "none"
        /\ ndecl = 0
        /\ lastDecl = [names |-> <<>>, scope |-> 1, seq |-> 0]
        /\ annot = IntLiteral(<<>>)
        /\ listing = NoListing
        /\ m_vreg = -1
        /\ m_vreg_max = ArithV - 1
        /\ loop_index = 0
        /\ code = <<hin>>
        /\ labels = <<>>
        /\ nstmt = 0
        /\ assembly = asm
        /\ local_storage_size = ArithS
        /\ num_vreg = ArithV
        /\ total_storage_size = frame
        /\ main = emit(asm, frame)
        /\ program = NoProgram
        /\ top = t
        /\ pc = 0
        /\ regs = ("rsp" :> t)
        /\ mem = ArithFrame(t - frame, va, vb)
        /\ entry = ArithFrame(t - frame, va, vb)
        /\ interp = NoInterp
        /\ flags = NoFlags
        /\ out = <<>>
        /\ ninput = 0
        /\ branches = <<>>
        /\ steps = 0
        /\ prior = NoPrior

ArithNext ==
    \/ ExecMove
    \/ ExecArith
    \/ ExecRet

SpecArith == ArithInit /\ [][ArithNext]_vars

----------------------------------------------------------------------------
(* The environments of the interpreter (Environment, Interp) *)

MaxEnvs == 3        \* environments of the functions being evaluated
MaxEnvOps == 4      \* statements evaluated

EnvNames == {"x", "y"}

val_create_ival(i) == [kind |-> "VAL_INT", ival |-> i]

\* a function value; its body is not looked at here
val_create_fn == [kind |-> "VAL_FN", ival |-> 0]

IntValues == {val_create_ival(1), val_create_ival(2)}

NullEnv == 0

\* env_create: a new Environment with no variables
env_create(envs, parent) == Append(envs, [vars |-> <<>>, parent |-> parent])

val_exists(envs, e, name) == name \in DOMAIN envs[e].vars

Bound(envs, e, name, val) == [envs EXCEPT ![e].vars = (name :> val) @@ @]

\* Environment::init_val
init_val(envs, e, name) ==
    IF val_exists(envs, e, name) THEN [envs |-> envs, err |-> "redefined"]
    ELSE [envs |-> Bound(envs, e, name, val_create_ival(0)), err |-> "none"]

\* Environment::find_val
RECURSIVE find_val(_, _, _)
find_val(envs, e, name) ==
    IF val_exists(envs, e, name) THEN [val |-> envs[e].vars[name], err |-> "none"]
    ELSE IF envs[e].parent = NullEnv
    THEN [val |-> val_create_ival(0), err |-> "undefined"]
    ELSE find_val(envs, envs[e].parent, name)

\* Environment::set_val
RECURSIVE set_val(_, _, _, _)
set_val(envs, e, name, val) ==
    IF val.kind = "VAL_INT"
    THEN IF val_exists(envs, e, name)
         THEN [envs |-> Bound(envs, e, name, val), err |-> "none"]
         ELSE IF envs[e].parent # NullEnv /\ val_exists(envs, envs[e].parent, name)
         THEN set_val(envs, envs[e].parent, name, val)
         ELSE [envs |-> envs, err |-> "undeclared"]
    ELSE [envs |-> Bound(envs, e, name, val), err |-> "none"]

\* the environment of the function being evaluated
CurrentEnv == Len(interp.envs)

\* Interp::exec: the global environment
InterpInit ==
    /\ phase = "interp"
    /\ scopes = <<SymbolTable(<<>>, NullScope)>>
    /\ scope = 1
    /\ curr_offset = 0
    /\ pending = <<>>
    /\ err = "none"
    /\ ndecl = 0
    /\ lastDecl = [names |-> <<>>, scope |-> 1, seq |-> 0]
    /\ annot = IntLiteral(<<>>)
    /\ listing = NoListing
    /\ GenInit
    /\ AsmInit
    /\ program = NoProgram
    /\ top = 0
    /\ pc = 0
    /\ regs = <<>>
    /\ mem = <<>>
    /\ flags = NoFlags
    /\ out = <<>>
    /\ ninput = 0
    /\ branches = <<>>
    /\ steps = 0
    /\ prior = NoPrior
    /\ entry = <<>>
    /\ interp = [NoInterp EXCEPT !.envs = env_create(<<>>, NullEnv)]

Evaluating == phase = "interp" /\ interp.err = "none" /\ interp.n < MaxEnvOps

Evaluated(envs, e, last) ==
    /\ interp' = [envs |-> envs, err |-> e, n |-> interp.n + 1, last |-> last]
    /\ phase' = Halt(e, "interp")
    /\ UNCHANGED <<semvars, genvars, asmvars, program, top, pc, regs, mem, flags, out,
                   ninput, branches, steps, prior, entry>>

\* eval_st on a variable declaration
EvalVarDec ==
    /\ Evaluating
    /\ \E name \in EnvNames : \E r \in {init_val(interp.envs, CurrentEnv, name)} :
          Evaluated(r.envs, r.err, [op |-> "init", env |-> CurrentEnv, name |-> name])

\* eval_st on an identifier
EvalIdentifier ==
    /\ Evaluating
    /\ \E name \in EnvNames : \E r \in {find_val(interp.envs, CurrentEnv, name)} :
          Evaluated(interp.envs, r.err,
                    [op |-> "find", env |-> CurrentEnv, name |-> name, val |-> r.val])

\* eval_st on an assignment of an integer
EvalAssign ==
    /\ Evaluating
    /\ \E name \in EnvNames, val \in IntValues :
          \E r \in {set_val(interp.envs, CurrentEnv, name, val)} :
              Evaluated(r.envs, r.err,
                        [op |-> "set", env |-> CurrentEnv, name |-> name, val |-> val])

\* eval_st on a function definition
EvalFuncDef ==
    /\ Evaluating
    /\ \E name \in EnvNames :
          \E r \in {set_val(interp.envs, CurrentEnv, name, val_create_fn)} :
              Evaluated(r.envs, r.err,
                        [op |-> "def", env |-> CurrentEnv, name |-> name])

\* eval_fn on a function without parameters: the environment of the call,
\* whose parent is the environment of the caller
EvalCall ==
    /\ Evaluating
    /\ Len(interp.envs) < MaxEnvs
    /\ Evaluated(env_create(interp.envs, CurrentEnv), "none",
                 [op |-> "call", env |-> CurrentEnv])

\* eval_fn returns to the caller
EvalReturn ==
    /\ Evaluating
    /\ Len(interp.envs) > 1
    /\ Evaluated(SubSeq(interp.envs, 1, Len(interp.envs) - 1), "none",
                 [op |-> "return", env |-> CurrentEnv])

InterpNext ==
    \/ EvalVarDec
    \/ EvalIdentifier
    \/ EvalAssign
    \/ EvalFuncDef
    \/ EvalCall
    \/ EvalReturn

SpecInterp == InterpInit /\ [][InterpNext]_vars

----------------------------------------------------------------------------
(* Properties of the semantic pass *)

Storage(tab) == {i \in 1..Len(tab) : tab[i].kind \in StorageKinds}

\* C3: after the semantic pass every storage-bearing symbol of every scope
\* ends at or before the scope's total size, and the storage ranges of the
\* symbols of one scope do not overlap.
C3_OffsetsWithinTotalSize ==
    (phase \in {"sem", "sem_stmt"} /\ pending = <<>>) =>
        \A s \in 1..Len(scopes) :
            LET tab == scopes[s].tab IN
            /\ \A i \in Storage(tab) :
                  tab[i].offset + tab[i].type.size <= get_total_size(scopes, s)
            /\ \A i, j \in Storage(tab) :
                  i < j => \/ tab[i].offset + tab[i].type.size <= tab[j].offset
                           \/ tab[j].offset + tab[j].type.size <= tab[i].offset

\* the scopes other than s are what they were
OthersKept(s) ==
    \A k \in 1..Len(scopes) : k # s => scopes'[k] = scopes[k]

\* what a step of the semantic pass does to the scopes while a RECORD type is
\* entered, visited and left
RecordStep ==
    /\ Len(pending') = Len(pending) + 1 =>
          /\ Len(scopes') = Len(scopes) + 1
          /\ scope' = Len(scopes')
          /\ scopes'[scope'].parent = scope
          /\ scopes'[scope'].depth = scopes[scope].depth + 1
          /\ scopes'[scope'].tab = <<>>
          /\ OthersKept(NullScope)
    /\ (phase = "sem" /\ pending' = pending /\ pending # <<>>) =>
          /\ scope' = scope
          /\ Len(scopes') = Len(scopes)
          /\ OthersKept(scope)
          /\ scopes'[scope].parent = scopes[scope].parent
    /\ Len(pending') = Len(pending) - 1 =>
          /\ scope' = scopes[scope].parent
          /\ Len(scopes') = Len(scopes)
          /\ OthersKept(scope')
          /\ Len(scopes'[scope'].tab) <= Len(scopes[scope'].tab) + 1
          /\ \A i \in (Len(scopes[scope'].tab) + 1)..Len(scopes'[scope'].tab) :
                /\ scopes'[scope'].tab[i].type.realType \in {"RECORD", "ARRAY"}
                /\ scopes'[scope'].tab[i].name = pending[Len(pending)].names[1]

\* C25: the visit of a RECORD type opens a new, empty scope whose parent is
\* the scope current at entry and whose depth is one more; while the record
\* is being visited every definition goes into the current scope and changes
\* no other; when the visit returns the current scope is again the parent,
\* the record's scope keeps its fields and the outer scope gains only the
\* names the RECORD type was declared for; the current scope is as deep as
\* the records being visited are nested.
C25_RecordScopes ==
    /\ [](/\ scope \in 1..Len(scopes)
          /\ phase = "sem" => scopes[scope].depth = Len(pending)
          /\ \A k \in 1..Len(scopes) :
                IF scopes[k].parent = NullScope THEN scopes[k].depth = 0
                ELSE scopes[k].depth = scopes[scopes[k].parent].depth + 1)
    /\ [][RecordStep]_vars

\* a record nested in a record has been visited: its field is in the scope
\* of depth 2, and the current scope is the global scope again
C25_Witness ==
    /\ phase = "sem"
    /\ pending = <<>>
    /\ scope = GlobalScope
    /\ \E k \in 1..Len(scopes) :
          /\ scopes[k].depth = 2
          /\ scopes[k].tab # <<>>
          /\ scopes[scopes[k].parent].parent = GlobalScope
          /\ Len(scopes[scopes[k].parent].tab) = 1
          /\ Len(scopes[GlobalScope].tab) = 1

\* C22: in every scope the offset of each storage-bearing symbol is the sum
\* of the sizes of the storage-bearing symbols inserted before it in that
\* scope (the cursor starts at zero and advances by the size of each).
C22_OffsetIsSumOfEarlierSizes ==
    \A s \in 1..Len(scopes) :
        LET tab == scopes[s].tab IN
        \A i \in Storage(tab) :
            tab[i].offset = StorageSize(SubSeq(tab, 1, i - 1))

\* the same of the global scope of a program that defines no TYPE and no
\* RECORD: there the one cursor is the cursor of the scope
C22_GlobalVariablesOnly ==
    (Len(scopes) = 1 /\ \A i \in 1..Len(scopes[1].tab) : scopes[1].tab[i].kind \in StorageKinds) =>
        /\ \A i \in 1..Len(scopes[1].tab) :
               scopes[1].tab[i].offset = StorageSize(SubSeq(scopes[1].tab, 1, i - 1))
        /\ (err = "none" /\ pending = <<>>) => curr_offset = StorageSize(scopes[1].tab)

ValueTags ==
    {"AST_INT_LITERAL", "AST_NAMED_TYPE", "AST_ARRAY_TYPE", "AST_RECORD_TYPE",
     "AST_VAR_REF", "AST_ARRAY_ELEMENT_REF", "AST_ADD", "AST_SUBTRACT",
     "AST_MULTIPLY", "AST_DIVIDE", "AST_MODULUS"}

RECURSIVE AllTyped(_)
AllTyped(node) ==
    /\ node.tag \in ValueTags => node.type.realType # "NULL"
    /\ \A i \in 1..Len(node.kids) : AllTyped(node.kids[i])

\* C5: after the semantic pass visited a node without error, the node and
\* every value-carrying node below it has a non-null resolved type.
C5_EveryValueNodeTyped ==
    (err = "none" /\ ndecl > 0) => AllTyped(annot)

RECURSIVE ChainOf(_, _)
ChainOf(tabs, s) ==
    {s} \cup (IF tabs[s].parent = NullScope THEN {} ELSE ChainOf(tabs, tabs[s].parent))

OnChain(tabs, s, name) ==
    \E c \in ChainOf(tabs, s) : \E i \in 1..Len(tabs[c].tab) : tabs[c].tab[i].name = name

TabNames(tab) == [i \in 1..Len(tab) |-> tab[i].name]

\* the names of a definition that come before its first redeclared name
Clashes(tabs, s, ns) ==
    {i \in 1..Len(ns) : OnChain(tabs, s, ns[i]) \/ \E j \in 1..(i - 1) : ns[j] = ns[i]}

Accepted(tabs, s, ns) ==
    IF Clashes(tabs, s, ns) = {} THEN ns
    ELSE SubSeq(ns, 1, (CHOOSE i \in Clashes(tabs, s, ns) :
                            \A j \in Clashes(tabs, s, ns) : i <= j) - 1)

\* C10: a definition of a name that is in the current scope or in an ancestor
\* scope ends the compilation with a redeclaration error and appends nothing
\* for that name; a name that is nowhere on the chain is appended to the
\* current scope; no other scope changes.
C10_RedeclarationIsFatal ==
    [][(lastDecl' # lastDecl /\ err' # "unknown_type") =>
          LET ns == lastDecl'.names
              sc == lastDecl'.scope
          IN  /\ err' = (IF Clashes(scopes, sc, ns) = {} THEN "none" ELSE "redeclared")
              /\ TabNames(scopes'[sc].tab)
                    = TabNames(scopes[sc].tab) \o Accepted(scopes, sc, ns)
              /\ Len(scopes') = Len(scopes)
              /\ \A s \in 1..Len(scopes) : s # sc => scopes'[s] = scopes[s]
      ]_vars

\* a field of a RECORD redeclares a name of an enclosing scope
C10_Witness ==
    /\ err = "redeclared"
    /\ scopes[lastDecl.scope].parent # NullScope
    /\ \E i \in 1..Len(lastDecl.names) :
          /\ ~HasLocal(scopes, lastDecl.scope, lastDecl.names[i])
          /\ OnChain(scopes, lastDecl.scope, lastDecl.names[i])

\* the scopes on the chain of s that hold the name
Holders(tabs, s, name) == {c \in ChainOf(tabs, s) : HasLocal(tabs, c, name)}

\* C16: from every scope and for every name, lookup is fatal exactly when
\* exists is false, exists is true exactly when some scope on the chain to
\* the root holds the name, and the symbol lookup returns is the one of the
\* innermost such scope.
C16_LookupFollowsChain ==
    \A s \in 1..Len(scopes), n \in Names :
        LET r == lookup(scopes, s, n)
            h == Holders(scopes, s, n)
        IN  /\ r.fatal = ~s_exists(scopes, s, n)
            /\ s_exists(scopes, s, n) = (h # {})
            /\ h # {} =>
                  LET inner == CHOOSE c \in h : \A d \in h : scopes[c].depth >= scopes[d].depth
                  IN  /\ r.sym.name = n
                      /\ \E i \in 1..Len(scopes[inner].tab) :
                             /\ scopes[inner].tab[i] = r.sym
                             /\ \A k \in 1..(i - 1) : scopes[inner].tab[k].name # n

\* a field and a later definition of the enclosing scope have the same name:
\* lookup from the nested scope returns the field, from the enclosing scope
\* the later definition; another name is found only in the enclosing scope
C16_Witness ==
    \E s \in 1..Len(scopes), n \in Names, m \in Names :
        /\ scopes[s].parent # NullScope
        /\ HasLocal(scopes, s, n)
        /\ HasLocal(scopes, scopes[s].parent, n)
        /\ lookup(scopes, s, n).sym # lookup(scopes, scopes[s].parent, n).sym
        /\ lookup(scopes, s, n).sym = FirstLocal(scopes, s, n)
        /\ ~HasLocal(scopes, s, m)
        /\ ~lookup(scopes, s, m).fatal

\* C12: once the semantic pass has met an error (unknown type, undefined
\* variable, redeclared name) the compilation is halted: nothing is printed,
\* no instruction is generated, lowered or emitted, and no step follows.
C12_FirstErrorHalts ==
    /\ [](err # "none" =>
             /\ phase = "halted"
             /\ listing = NoListing
             /\ code = <<>> /\ labels = <<>> /\ nstmt = 0
             /\ assembly = EmptySequence /\ main = <<>>)
    /\ [][err = "none"]_vars

\* an undefined variable met after a declaration and an expression were accepted
C12_Witness ==
    /\ err = "undefined_var"
    /\ phase = "halted"
    /\ ndecl = 3
    /\ scopes[GlobalScope].tab # <<>>

\* the listing the symbol table print is to produce: one line per symbol in
\* declaration order, the lines of the nested scope of a record type first
RECURSIVE ListingOf(_, _)
ListingOf(tabs, s) ==
    LET lineOf(i) == <<tabs[s].depth, get_name_for_kind(tabs[s].tab[i].kind),
                       tabs[s].tab[i].name, to_string(tabs[s].tab[i].type)>>
        part(i) == (IF tabs[s].tab[i].type.realType = "RECORD"
                    THEN ListingOf(tabs, tabs[s].tab[i].type.symtab) ELSE <<>>)
                   \o <<lineOf(i)>>
        upto[i \in 0..Len(tabs[s].tab)] == IF i = 0 THEN <<>> ELSE upto[i - 1] \o part(i)
    IN  upto[Len(tabs[s].tab)]

\* C11: the symbol table print writes one line per symbol in declaration
\* order, with the lines of the nested scope right before the line of every
\* symbol whose type is a record, and it descends at no symbol whose type is
\* not a record.
C11_PrintDescendsThroughRecords ==
    listing.done =>
        /\ ~listing.fault
        /\ listing.lines = ListingOf(scopes, GlobalScope)
        /\ \A e \in listing.entered :
               scopes[e[1]].tab[e[2]].type.realType = "RECORD"

----------------------------------------------------------------------------
(* Properties of the code generator and of the lowering *)

\* C1: the frame of the prologue and of the epilogue is S + 8V, plus 8 when
\* that is a multiple of 16, and (frame + 8) mod 16 = 0.
C1_FrameAlignment ==
    phase = "asm" =>
        LET base == local_storage_size + num_vreg * 8 IN
        /\ local_storage_size = get_total_size(scopes, GlobalScope)
        /\ num_vreg = m_vreg_max + 1
        /\ total_storage_size = base + (IF base % 16 = 0 THEN 8 ELSE 0)
        /\ (total_storage_size + 8) % 16 = 0
        /\ main[1] = Instruction("MINS_SUBQ", <<IntLit(total_storage_size), MReg("rsp")>>)
        /\ main[Len(main) - 2]
             = Instruction("MINS_ADDQ", <<IntLit(total_storage_size), MReg("rsp")>>)

\* storage and virtual registers that add up to a multiple of 16, and to 8 mod 16
C1_Witness ==
    /\ phase = "asm"
    /\ local_storage_size > 0
    /\ num_vreg > 2
    /\ (local_storage_size + num_vreg * 8) % 16 = 0

LabelDefs(seq, l) == {i \in DOMAIN seq.labels : seq.labels[i] = l}

\* C2: every label a jump of the high-level sequence refers to is defined
\* exactly once in the sequence.
C2_JumpLabelsDefinedOnce ==
    phase \in {"gen", "asm"} =>
        \A i \in 1..Len(code) :
            code[i].opcode \in JumpOpcodes =>
                Cardinality(LabelDefs(CodeGen, code[i].operands[1].val)) = 1

VRegKinds == {"OPERAND_VREG", "OPERAND_VREG_MEMREF"}

\* C4: every virtual register operand of every high-level instruction is
\* between 0 and the high-water mark vreg_max.
C4_VRegsWithinMax ==
    \A i \in 1..Len(code) :
        \A k \in 1..Len(code[i].operands) :
            code[i].operands[k].kind \in VRegKinds =>
                /\ 0 <= code[i].operands[k].val
                /\ code[i].operands[k].val <= m_vreg_max

\* the variables of the global scope, and the bytes of a variable and of the
\* slot of a virtual register in the frame of main
Variables == {i \in 1..Len(scopes[GlobalScope].tab) : scopes[GlobalScope].tab[i].kind = "VARIABLE"}

VarBytes(i) ==
    LET sym == scopes[GlobalScope].tab[i] IN sym.offset..(sym.offset + sym.type.size - 1)

SlotBytes(n) ==
    (local_storage_size + n * WORD_SIZE)..(local_storage_size + n * WORD_SIZE + WORD_SIZE - 1)

\* C27: in a compiled program every byte of every variable and of the slot
\* of every virtual register 0 .. V - 1 is a byte 0 .. frame - 1 of the frame,
\* the slots of two registers share no byte, and the slot of a register
\* shares no byte with a variable.
C27_FrameLayout ==
    phase = "asm" =>
        /\ \A i \in Variables : VarBytes(i) \subseteq 0..(total_storage_size - 1)
        /\ \A n \in 0..(num_vreg - 1) :
              /\ SlotBytes(n) \subseteq 0..(total_storage_size - 1)
              /\ \A k \in 0..(num_vreg - 1) : k # n => SlotBytes(n) \cap SlotBytes(k) = {}
              /\ \A i \in Variables : SlotBytes(n) \cap VarBytes(i) = {}

\* the same of the programs that declare only variables of type INTEGER or
\* ARRAY OF INTEGER: there the offsets of the variables end at S
C27_VariablesOnly ==
    (phase = "asm" /\ Len(scopes) = 1 /\ Variables = 1..Len(scopes[GlobalScope].tab)) =>
        /\ \A i \in Variables : VarBytes(i) \subseteq 0..(local_storage_size - 1)
        /\ \A n \in 0..(num_vreg - 1) :
              /\ SlotBytes(n) \subseteq local_storage_size..(total_storage_size - 1)
              /\ \A k \in 0..(num_vreg - 1) : k # n => SlotBytes(n) \cap SlotBytes(k) = {}

\* C26: the visit of the declarations by the code generator adds no
\* instruction and no label to the sequence and changes neither the register
\* counter, nor its high-water mark, nor the label counter; after it they are
\* as the constructor left them.
C26_DeclarationsEmitNothing ==
    /\ [](nstmt = 0 /\ phase \in {"gen_decl", "gen"} =>
            /\ code = <<>>
            /\ labels = <<>>
            /\ m_vreg = -1
            /\ m_vreg_max = -1
            /\ loop_index = 0)
    /\ [][phase = "gen_decl" =>
             UNCHANGED <<code, labels, m_vreg, m_vreg_max, loop_index>>]_vars

\* the declarations a : ARRAY 2 OF INTEGER; x, y : INTEGER have been visited
C26_Witness ==
    /\ phase = "gen"
    /\ nstmt = 0
    /\ Len(program.decls) = 2
    /\ Len(scopes[GlobalScope].tab) = 3
    /\ code = <<>>

\* the machine instructions of the high-level instructions lo + 1 .. hi, in order
RECURSIVE TranslatedRange(_, _, _, _)
TranslatedRange(seq, S, lo, hi) ==
    IF hi <= lo THEN <<>>
    ELSE IF hi = lo + 1 THEN Translate(S, seq[hi])
    ELSE Bind(TranslatedRange(seq, S, lo, (lo + hi) \div 2), LAMBDA l :
         l \o TranslatedRange(seq, S, (lo + hi) \div 2, hi))

\* the machine instructions of the first i high-level instructions, in order
Translated(seq, S, i) == TranslatedRange(seq, S, 0, i)

\* the number of machine instructions of the first 0, 1, .. i high-level
\* instructions: Starts(seq, S, i)[k + 1] is the index (from 0) of the first
\* machine instruction of instruction k (from 0)
RECURSIVE Starts(_, _, _)
Starts(seq, S, i) ==
    IF i = 0 THEN <<0>>
    ELSE Bind(Starts(seq, S, i - 1), LAMBDA p :
         Append(p, p[i] + Len(Translate(S, seq[i]))))

LabelSet(l) == {l[i] : i \in DOMAIN l}

\* C24: after the lowering the machine instructions are those of the
\* high-level instructions in order; a label defined at index i of the
\* high-level sequence stands at the index of the first machine instruction
\* of instruction i, and instruction i has one; a label at the end of the
\* sequence stands after the last machine instruction, where main goes on with
\* the epilogue; the assembly has the same labels, as many and in the same
\* order.
C24_LabelsBeforeTheirInstruction ==
    phase = "asm" =>
        \A at \in {Starts(code, local_storage_size, Len(code))} :
        /\ assembly.code = Translated(code, local_storage_size, Len(code))
        /\ \A i \in DOMAIN labels :
              /\ at[i + 1] \in DOMAIN assembly.labels
              /\ assembly.labels[at[i + 1]] = labels[i]
              /\ i < Len(code) => Translate(local_storage_size, code[i + 1]) # <<>>
              /\ i = Len(code) =>
                    /\ at[i + 1] = Len(assembly.code)
                    /\ main[1 + at[i + 1] + 1].opcode = "MINS_ADDQ"
                    /\ Len(main) = 1 + at[i + 1] + 3
        /\ Cardinality(DOMAIN assembly.labels) = Cardinality(DOMAIN labels)
        /\ LabelSet(assembly.labels) = LabelSet(labels)
        /\ \A i, j \in DOMAIN labels : i < j => at[i + 1] < at[j + 1]
        /\ SubSeq(main, 2, Len(main) - 3) = assembly.code

\* lowered with a label between instructions and a label at the end
C24_Witness ==
    /\ phase = "asm"
    /\ has_label_at_end(CodeGen)
    /\ \E i \in DOMAIN labels :
          /\ 0 < i
          /\ i < Len(code)
          /\ Len(Translated(code, local_storage_size, i)) > i
          /\ assembly.labels[Len(Translated(code, local_storage_size, i))] = labels[i]

\* the virtual register ids that occur in a sequence of instructions
UsedVRegs(seq) ==
    {seq[i].operands[k].val :
        <<i, k>> \in {p \in (1..Len(seq)) \X (1..3) :
                        /\ p[2] <= Len(seq[p[1]].operands)
                        /\ seq[p[1]].operands[p[2]].kind \in VRegKinds}}

\* C23: the high-water mark is never below the counter and never decreases
\* from one statement to the next; the count handed to the lowering is the
\* mark + 1, and it is the number of distinct virtual registers that occur
\* in the instruction sequence.
C23_VRegCountIsMarkPlusOne ==
    /\ [](/\ -1 <= m_vreg
          /\ m_vreg <= m_vreg_max
          /\ phase = "asm" =>
                /\ num_vreg = m_vreg_max + 1
                /\ num_vreg = Cardinality(UsedVRegs(code)))
    /\ [][m_vreg_max' >= m_vreg_max]_vars

\* lowered after a statement that used three registers and reset the counter
C23_Witness ==
    /\ phase = "asm"
    /\ m_vreg = -1
    /\ num_vreg = 3
    /\ UsedVRegs(code) = {0, 1, 2}

\* a nested expression that uses several registers, after a reset
C4_Witness ==
    /\ nstmt = 2
    /\ m_vreg_max >= 6
    /\ m_vreg = -1
    /\ \E i \in 1..Len(code) :
          /\ code[i].opcode = "HINS_INT_MUL"
          /\ code[i].operands[2].kind = "OPERAND_VREG_MEMREF"
    /\ \E i \in 1..Len(code) :
          /\ code[i].opcode = "HINS_INT_MUL"
          /\ code[i].operands[1] = VReg(m_vreg_max)
    /\ code[Len(code)].operands[1].val < m_vreg_max

\* C17: whenever the code generator has finished a statement of the program
\* (assignment, READ, WRITE, IF, IF/ELSE, WHILE, REPEAT), the counter of
\* virtual registers is -1.
C17_VRegResetAfterStatement ==
    phase = "gen" => m_vreg = -1

\* C9: the program without declarations and statements is lowered to the
\* prologue and the epilogue with a frame of 8 and nothing between them.
C9_EmptyProgram ==
    (phase = "asm" /\ scopes[GlobalScope].tab = <<>> /\ nstmt = 0) =>
        /\ total_storage_size = 8
        /\ assembly.code = <<>>
        /\ DOMAIN assembly.labels = {}
        /\ main = <<Instruction("MINS_SUBQ", <<IntLit(8), MReg("rsp")>>),
                    Instruction("MINS_ADDQ", <<IntLit(8), MReg("rsp")>>),
                    Instruction("MINS_MOVL", <<IntLit(0), MReg("eax")>>),
                    Instruction("MINS_RET", <<>>)>>

C9_Witness ==
    /\ phase = "asm"
    /\ scopes[GlobalScope].tab = <<>>
    /\ nstmt = 0
    /\ Len(main) = 4

----------------------------------------------------------------------------
(* Properties of the programs as run *)

\* the address of a variable in the frame of main
VarAddr(name) ==
    (top - total_storage_size) + lookup(scopes, GlobalScope, name).sym.offset

\* the value of a source expression in the current memory
RECURSIVE SrcValue(_)
SrcValue(e) ==
    CASE e.tag = "AST_INT_LITERAL" -> DigitsValue(e.lex)
      [] e.tag = "AST_VAR_REF" -> mem[VarAddr(e.kids[1].str)]
      [] e.tag = "AST_ARRAY_ELEMENT_REF" ->
           mem[VarAddr(e.kids[1].kids[1].str) + SrcValue(e.kids[2]) * 8]
      [] e.tag = "AST_ADD"      -> SrcValue(e.kids[1]) + SrcValue(e.kids[2])
      [] e.tag = "AST_SUBTRACT" -> SrcValue(e.kids[1]) - SrcValue(e.kids[2])
      [] e.tag = "AST_MULTIPLY" -> SrcValue(e.kids[1]) * SrcValue(e.kids[2])
      [] e.tag = "AST_DIVIDE"   -> Quotient(SrcValue(e.kids[1]), SrcValue(e.kids[2]))
      [] e.tag = "AST_MODULUS"  -> Remainder(SrcValue(e.kids[1]), SrcValue(e.kids[2]))

LastStatement == program.stmts[Len(program.stmts)]

EndsWithAssignment ==
    /\ program.stmts # <<>>
    /\ LastStatement.tag = "AST_ASSIGN"
    /\ LastStatement.kids[1].tag = "AST_VAR_REF"

\* C6: when a program whose last statement is the assignment x := rhs has
\* run, x holds the value of rhs, whatever the form of rhs (literal,
\* variable, array element, arithmetic expression).
C6_AssignStoresValue ==
    (phase = "exit" /\ EndsWithAssignment) =>
        LET addr == VarAddr(LastStatement.kids[1].kids[1].str)
        IN  /\ addr \in DOMAIN mem
            /\ mem[addr] = SrcValue(LastStatement.kids[2])

IsWriteLiteral(p) ==
    /\ Len(p.stmts) = 1
    /\ p.stmts[1].tag = "AST_WRITE"
    /\ p.stmts[1].kids[1].tag = "AST_INT_LITERAL"

\* C7: the program BEGIN WRITE n END calls printf at most once, never
\* faults, and when it has returned it has printed exactly the line n and
\* its exit status is 0.
C7_WriteLiteralPrintsIt ==
    IsWriteLiteral(program) =>
        /\ phase \in {"run", "exit"}
        /\ Len(out) <= 1
        /\ phase = "exit" =>
              /\ out = <<[neg |-> FALSE,
                          digits |-> StripZeros(program.stmts[1].kids[1].lex)]>>
              /\ "rax" \in DOMAIN regs
              /\ regs["rax"] = 0

RunOver == phase = "exit" \/ (phase = "run" /\ steps = MaxSteps)

\* C8: the program with every comparison mirrored (operands swapped, < with
\* >, <= with >=) takes the same branch at every conditional jump as the
\* program itself, prints the same lines and ends the same way.
C8_MirroredComparisonSameBranch ==
    prior.done =>
        /\ \A i \in 1..Len(branches) :
               i <= Len(prior.branches) /\ branches[i] = prior.branches[i]
        /\ RunOver => /\ branches = prior.branches
                      /\ out = prior.out
                      /\ phase = prior.phase

\* reached: IF y > x THEN ...; WHILE y > x DO ..., mirrored from x < y, has
\* run to its end with the inverted jump of the IF taken and the jump of the
\* WHILE not taken
C8_Witness ==
    /\ prior.done
    /\ phase = "exit"
    /\ Len(program.stmts) = 4
    /\ program.stmts[3].tag = "AST_IF"
    /\ program.stmts[3].kids[1].tag = "AST_COMPARE_GT"
    /\ program.stmts[4].tag = "AST_WHILE"
    /\ branches = <<TRUE, FALSE>>
    /\ out = <<>>

----------------------------------------------------------------------------
(* Properties of the control statements as run *)

\* the truth of a comparison of two integers
Holds(tag, l, r) ==
    CASE tag = "AST_COMPARE_EQ"  -> l = r
      [] tag = "AST_COMPARE_NEQ" -> l # r
      [] tag = "AST_COMPARE_LT"  -> l < r
      [] tag = "AST_COMPARE_LTE" -> l <= r
      [] tag = "AST_COMPARE_GT"  -> l > r
      [] tag = "AST_COMPARE_GTE" -> l >= r

\* the truth of a source condition in the current memory
CondHolds(c) == Holds(c.tag, SrcValue(c.kids[1]), SrcValue(c.kids[2]))

\* the truth of a source condition when x is i
CondAt(c, i) ==
    LET at(e) == IF e.tag = "AST_VAR_REF" THEN i ELSE DigitsValue(e.lex)
    IN  Holds(c.tag, at(c.kids[1]), at(c.kids[2]))

Trues(b) == Cardinality({i \in DOMAIN b : b[i]})

Falses(b) == Cardinality({i \in DOMAIN b : ~b[i]})

\* assignments, then one control statement of the given kind
EndsWith(p, tag) ==
    /\ p.stmts # <<>>
    /\ p.stmts[Len(p.stmts)].tag = tag
    /\ \A i \in 1..(Len(p.stmts) - 1) : p.stmts[i].tag = "AST_ASSIGN"

\* the iterations of x := 1; WHILE c DO BEGIN WRITE x; x := x + 1 END
WhileCount(c) == CHOOSE k \in 0..5 : (\A i \in 1..k : CondAt(c, i)) /\ ~CondAt(c, k + 1)

\* C13: in a program that ends with WHILE cond DO body, every conditional
\* jump executed is taken exactly when cond holds in the memory of that
\* moment; body (which starts with a WRITE) has been entered once for every
\* time cond was found true and never before cond was evaluated; nothing of
\* the loop runs after cond was found false; the counting loop from 1 writes
\* 1 .. k, where k is the number of iterations after which cond is false.
C13_WhileTestsBeforeEachIteration ==
    /\ [](EndsWith(program, "AST_WHILE") =>
            LET c == LastStatement.kids[1] IN
            /\ phase \in {"run", "exit"}
            /\ \A i \in 1..(Len(branches) - 1) : branches[i]
            /\ Len(out) \in {Trues(branches) - 1, Trues(branches)} \cap Nat
            /\ Falses(branches) = 1 => Len(out) = Trues(branches)
            /\ phase = "exit" =>
                  /\ Falses(branches) = 1
                  /\ LastStatement.kids[2].kids = CountBody =>
                        /\ Len(out) = WhileCount(c)
                        /\ out = [i \in 1..Len(out) |-> Format(i)]
                        /\ mem[VarAddr("x")] = WhileCount(c) + 1)
    /\ [][(EndsWith(program, "AST_WHILE") /\ Len(branches') = Len(branches) + 1) =>
             branches'[Len(branches')] = CondHolds(LastStatement.kids[1])]_vars

\* x := 1; WHILE x <= 3 DO BEGIN WRITE x; x := x + 1 END has written 1, 2, 3
C13_Witness ==
    /\ EndsWith(program, "AST_WHILE")
    /\ LastStatement.kids[1].tag = "AST_COMPARE_LTE"
    /\ LastStatement.kids[2].kids = CountBody
    /\ ~prior.done
    /\ phase = "exit"
    /\ branches = <<TRUE, TRUE, TRUE, FALSE>>
    /\ out = <<Format(1), Format(2), Format(3)>>

\* assignments, an IF/ELSE, and at most one WRITE after it
HasIfElse(p) ==
    /\ Len(p.stmts) \in {3, 4}
    /\ p.stmts[3].tag = "AST_IF_ELSE"
    /\ \A i \in 1..2 : p.stmts[i].tag = "AST_ASSIGN"

\* what x := v; y := 2; IF c THEN WRITE 1 ELSE WRITE 0 [; WRITE 9] prints
IfElseOutput(p) ==
    <<Format(IF CondHolds(p.stmts[3].kids[1]) THEN 1 ELSE 0)>>
    \o (IF Len(p.stmts) = 4 THEN <<Format(9)>> ELSE <<>>)

\* C14: a program with IF cond THEN a ELSE b executes the one conditional
\* jump of the statement, taken exactly when cond is false; it runs a and not
\* b when cond is true, b and not a when cond is false, and in both cases
\* goes on with what follows the statement (the next statement, or the end
\* of the program).
C14_IfElseRunsExactlyOneBranch ==
    /\ [](HasIfElse(program) =>
            /\ phase \in {"run", "exit"}
            /\ Len(branches) <= 1
            /\ branches = <<>> => out = <<>>
            /\ branches # <<>> =>
                  /\ Len(out) <= Len(IfElseOutput(program))
                  /\ out = SubSeq(IfElseOutput(program), 1, Len(out))
            /\ phase = "exit" => Len(branches) = 1 /\ out = IfElseOutput(program))
    /\ [][(HasIfElse(program) /\ Len(branches') = Len(branches) + 1) =>
             branches'[Len(branches')] = ~CondHolds(program.stmts[3].kids[1])]_vars

\* x := 3; y := 2; IF x <= y THEN WRITE 1 ELSE WRITE 0; WRITE 9 has jumped
\* to the else branch and written 0 and 9
C14_Witness ==
    /\ HasIfElse(program)
    /\ Len(program.stmts) = 4
    /\ program.stmts[3].kids[1].tag = "AST_COMPARE_LTE"
    /\ ~prior.done
    /\ phase = "exit"
    /\ branches = <<TRUE>>
    /\ out = <<Format(0), Format(9)>>

\* the iterations of x := 1; REPEAT WRITE x; x := x + 1 UNTIL c
RepeatCount(c) ==
    CHOOSE k \in 1..5 : (\A i \in 2..k : ~CondAt(c, i)) /\ CondAt(c, k + 1)

\* C19: in a program that ends with REPEAT body UNTIL cond, body (which
\* starts with a WRITE) has run before the first test of cond and has been
\* entered once more for every jump back; the jump after each test is taken
\* exactly when cond is false in the memory of that moment; nothing of the
\* loop runs after cond was found true; the counting loop from 1 writes
\* 1 .. k, where k is the first number of iterations after which cond is true.
C19_RepeatTestsAfterEachIteration ==
    /\ [](EndsWith(program, "AST_REPEAT") =>
            LET c == LastStatement.kids[2] IN
            /\ phase \in {"run", "exit"}
            /\ \A i \in 1..(Len(branches) - 1) : branches[i]
            /\ Len(out) \in {Trues(branches), Trues(branches) + 1}
            /\ branches # <<>> => Len(out) >= 1
            /\ Falses(branches) = 1 => Len(out) = Len(branches)
            /\ phase = "exit" =>
                  /\ Falses(branches) = 1
                  /\ LastStatement.kids[1].kids = CountBody =>
                        /\ Len(out) = RepeatCount(c)
                        /\ out = [i \in 1..Len(out) |-> Format(i)]
                        /\ mem[VarAddr("x")] = RepeatCount(c) + 1)
    /\ [][(EndsWith(program, "AST_REPEAT") /\ Len(branches') = Len(branches) + 1) =>
             branches'[Len(branches')] = ~CondHolds(LastStatement.kids[2])]_vars

\* x := 1; REPEAT WRITE x; x := x + 1 UNTIL x > 3 has written 1, 2, 3
C19_Witness ==
    /\ EndsWith(program, "AST_REPEAT")
    /\ LastStatement.kids[2].tag = "AST_COMPARE_GT"
    /\ LastStatement.kids[1].kids = CountBody
    /\ ~prior.done
    /\ phase = "exit"
    /\ branches = <<TRUE, TRUE, FALSE>>
    /\ out = <<Format(1), Format(2), Format(3)>>

\* x := 1; REPEAT WRITE x; x := x + 1 UNTIL x < 5 has run its body once,
\* the condition being true at the first test
C19_Once ==
    /\ EndsWith(program, "AST_REPEAT")
    /\ LastStatement.kids[2].tag = "AST_COMPARE_LT"
    /\ LastStatement.kids[1].kids = CountBody
    /\ phase = "exit"
    /\ branches = <<FALSE>>
    /\ out = <<Format(1)>>

\* assignments, then an IF without ELSE, then anything
StartsWithIf(p) ==
    \E k \in 1..Len(p.stmts) :
        /\ p.stmts[k].tag = "AST_IF"
        /\ \A i \in 1..(k - 1) : p.stmts[i].tag = "AST_ASSIGN"

FirstIf(p) ==
    p.stmts[CHOOSE k \in 1..Len(p.stmts) :
                /\ p.stmts[k].tag = "AST_IF"
                /\ \A i \in 1..(k - 1) : p.stmts[i].tag = "AST_ASSIGN"]

\* x := v; y := 2; IF c THEN WRITE 1 [; WRITE 9]
IfThenWrite(p) ==
    /\ StartsWithIf(p)
    /\ FirstIf(p).kids[2].kids = <<Write(Lit(1))>>
    /\ FirstIf(p) = p.stmts[3]
    /\ Len(p.stmts) = 3 \/ (Len(p.stmts) = 4 /\ p.stmts[4].tag = "AST_WRITE")

IfOutput(p) ==
    (IF CondHolds(p.stmts[3].kids[1]) THEN <<Format(1)>> ELSE <<>>)
    \o (IF Len(p.stmts) = 4 THEN <<Format(9)>> ELSE <<>>)

\* C20: a program whose first control statement is IF cond THEN body is
\* compiled to code that runs; the conditional jump of the IF is taken
\* exactly when cond is false; body runs exactly when cond is true, and in
\* both cases the program goes on with what follows the IF (the next
\* statement, or the end of the program, or the rest of the enclosing IF).
C20_IfRunsBodyWhenTrue ==
    /\ [](StartsWithIf(program) =>
            /\ phase \in {"run", "exit"}
            /\ IfThenWrite(program) =>
                  /\ Len(branches) <= 1
                  /\ branches = <<>> => out = <<>>
                  /\ branches # <<>> =>
                        /\ Len(out) <= Len(IfOutput(program))
                        /\ out = SubSeq(IfOutput(program), 1, Len(out))
                  /\ phase = "exit" =>
                        Len(branches) = 1 /\ out = IfOutput(program))
    /\ [][(StartsWithIf(program) /\ branches = <<>> /\ Len(branches') = 1) =>
             branches'[1] = ~CondHolds(FirstIf(program).kids[1])]_vars

\* the same, of the programs in which the IF does not end the body of
\* another statement
C20_IfNotLastOfABody ==
    /\ [](IfThenWrite(program) =>
            /\ phase \in {"run", "exit"}
            /\ Len(branches) <= 1
            /\ branches = <<>> => out = <<>>
            /\ branches # <<>> =>
                  /\ Len(out) <= Len(IfOutput(program))
                  /\ out = SubSeq(IfOutput(program), 1, Len(out))
            /\ phase = "exit" =>
                  Len(branches) = 1 /\ out = IfOutput(program))
    /\ [][(IfThenWrite(program) /\ branches = <<>> /\ Len(branches') = 1) =>
             branches'[1] = ~CondHolds(FirstIf(program).kids[1])]_vars

\* x := 1; y := 2; IF x > y THEN WRITE 1 has jumped over the body to the
\* label at the end of the sequence and left main
C20_SkipsToEnd ==
    /\ IfThenWrite(program)
    /\ Len(program.stmts) = 3
    /\ phase = "exit"
    /\ branches = <<TRUE>>
    /\ out = <<>>

----------------------------------------------------------------------------
(* Properties of the environments of the interpreter *)

\* the environments from e up to the global one
RECURSIVE Ancestors(_, _)
Ancestors(envs, e) ==
    IF e = NullEnv THEN <<>> ELSE <<e>> \o Ancestors(envs, envs[e].parent)

Declaring(envs, e, name) ==
    SelectSeq(Ancestors(envs, e), LAMBDA k : name \in DOMAIN envs[k].vars)

\* the step is an assignment of an integer to a name that find_val reads
\* from the current environment, at most dist environments up
AssignsReadable(dist) ==
    /\ interp'.n = interp.n + 1
    /\ interp'.last.op = "set"
    /\ find_val(interp.envs, CurrentEnv, interp'.last.name).err = "none"
    /\ \E i \in 1..(dist + 1) :
          i <= Len(Ancestors(interp.envs, CurrentEnv))
          /\ interp'.last.name \in DOMAIN interp.envs[Ancestors(interp.envs, CurrentEnv)[i]].vars

\* the assignment has bound the name to the value in the nearest environment
\* that declares it, and has changed nothing else
AssignedInNearest ==
    LET name == interp'.last.name
        near == Head(Declaring(interp.envs, CurrentEnv, name))
    IN  /\ interp'.err = "none"
        /\ interp'.envs = Bound(interp.envs, near, name, interp'.last.val)
        /\ find_val(interp'.envs, CurrentEnv, name).val = interp'.last.val

\* C28: every assignment of an integer to a name that find_val can read from
\* the current environment (declared in it or in an ancestor at any
\* distance) succeeds, binds the name in the nearest environment that
\* declares it and creates or changes no other binding.
C28_ReadableIsAssignable ==
    [][AssignsReadable(MaxEnvs) => AssignedInNearest]_vars

\* the same of the names declared in the current environment or in its
\* parent
C28_UpToTheParent ==
    [][AssignsReadable(1) => AssignedInNearest]_vars

\* a name declared two environments up is read from the current
\* environment and its assignment has ended the interpreter
C28_GrandparentNotAssignable ==
    /\ phase = "halted"
    /\ interp.err = "undeclared"
    /\ interp.last.op = "set"
    /\ Len(interp.envs) = 3
    /\ find_val(interp.envs, 3, interp.last.name).err = "none"
    /\ interp.last.name \in DOMAIN interp.envs[1].vars

----------------------------------------------------------------------------
(* Properties of the arithmetic instructions as run *)

\* the address of the slot of a virtual register in the frame of main
SlotAddr(op) == (top - total_storage_size) + local_storage_size + get_base_reg(op) * WORD_SIZE

\* the value an operand of a high-level instruction had at entry
EntryValue(op) ==
    CASE op.kind = "OPERAND_INT_LITERAL" -> op.val
      [] op.kind = "OPERAND_VREG"        -> entry[SlotAddr(op)]
      [] op.kind = "OPERAND_VREG_MEMREF" -> entry[entry[SlotAddr(op)]]

\* no quotient of a by b is a 64-bit signed value
NoQuotient(hin) ==
    /\ hin.opcode \in {"HINS_INT_DIV", "HINS_INT_MOD"}
    /\ \/ EntryValue(hin.operands[3]) = 0
       \/ EntryValue(hin.operands[2]) = LONG_MIN /\ EntryValue(hin.operands[3]) = -1

ArithResult(hin) ==
    LET a == EntryValue(hin.operands[2])
        b == EntryValue(hin.operands[3])
    IN  CASE hin.opcode = "HINS_INT_ADD" -> WrapAdd(a, b)
          [] hin.opcode = "HINS_INT_SUB" -> WrapSub(a, b)
          [] hin.opcode = "HINS_INT_MUL" -> WrapMul(a, b)
          [] hin.opcode = "HINS_INT_DIV" -> Quotient(a, b)
          [] hin.opcode = "HINS_INT_MOD" -> Remainder(a, b)

\* C21: the machine instructions of INT_ADD, INT_SUB, INT_MUL, INT_DIV,
\* INT_MOD d, a, b, run on a frame of known content, never change a word of
\* the frame other than slot(d), and never a variable; when main returns,
\* slot(d) holds a + b, a - b, a * b, the truncated quotient or the
\* remainder of the values a and b had at entry, as 64-bit signed values;
\* the run ends otherwise only where no quotient exists (b = 0, or
\* LONG_MIN / -1), with the frame as it was.
C21_ArithmeticLowering ==
    (entry # <<>> /\ Len(code) = 1 /\ code[1].opcode \in ArithOpcodes) =>
        LET hin == code[1]
            d   == SlotAddr(hin.operands[1])
        IN  /\ DOMAIN mem = DOMAIN entry
            /\ \A x \in DOMAIN entry : x # d => mem[x] = entry[x]
            /\ phase \in {"run", "exit", "fault"}
            /\ phase = "exit" => ~NoQuotient(hin) /\ mem[d] = ArithResult(hin)
            /\ phase = "fault" => NoQuotient(hin) /\ mem = entry

\* INT_SUB vr2, vr0, vr1 with vr0 = 2 and vr1 = -7 has left 9 in vr2
C21_Witness ==
    /\ entry # <<>>
    /\ code = <<Instruction("HINS_INT_SUB", <<VReg(2), VReg(0), VReg(1)>>)>>
    /\ phase = "exit"
    /\ EntryValue(VReg(0)) = 2
    /\ EntryValue(VReg(1)) = -7
    /\ mem[SlotAddr(VReg(2))] = 9

\* INT_MOD vr0, vr0, vr1 with vr0 = -7 and vr1 = 2 has left -1 in vr0
C21_ModWitness ==
    /\ entry # <<>>
    /\ code = <<Instruction("HINS_INT_MOD", <<VReg(0), VReg(0), VReg(1)>>)>>
    /\ phase = "exit"
    /\ EntryValue(VReg(0)) = -7
    /\ EntryValue(VReg(1)) = 2
    /\ mem[SlotAddr(VReg(0))] = -1

----------------------------------------------------------------------------
(* Properties of the array elements as run *)

\* the value of an index expression when x is i
IndexValue(e, i) ==
    CASE e.tag = "AST_INT_LITERAL" -> DigitsValue(e.lex)
      [] e.tag = "AST_VAR_REF"     -> i
      [] e.tag = "AST_SUBTRACT"    -> 2 - i
      [] e.tag = "AST_MULTIPLY"    -> i * 1

\* the addresses of the frame that hold variables, below the virtual registers
VariableArea ==
    {a \in DOMAIN mem : a >= top - total_storage_size
                          /\ a < (top - total_storage_size) + local_storage_size}

\* C15: after a[0] := 10; a[1] := 11; a[2] := 12; x := i; a[s] := 7;
\* WRITE a[l], with s and l a literal, a variable or an arithmetic
\* expression, the word at the frame address of a plus 8 * s holds 7, the two
\* other elements and x hold what they held, no other word of the variables
\* was written, and the value printed is 7 when l = s and the element
\* stored first otherwise.
C15_ArrayElementAddress ==
    program.decls = A3XY =>
        /\ phase \in {"run", "exit"}
        /\ phase = "exit" =>
              LET i == DigitsValue(program.stmts[4].kids[2].lex)
                  s == IndexValue(program.stmts[5].kids[1].kids[2], i)
                  l == IndexValue(program.stmts[6].kids[1].kids[2], i)
                  a == VarAddr("a")
              IN  /\ VariableArea = {a, a + 8, a + 16, VarAddr("x")}
                  /\ \A k \in 0..2 : mem[a + 8 * k] = IF k = s THEN 7 ELSE 10 + k
                  /\ mem[VarAddr("x")] = i
                  /\ out = <<Format(IF l = s THEN 7 ELSE 10 + l)>>

\* x := 1; a[2 - x] := 7; WRITE a[x] has run: the element stored through an
\* arithmetic index is the one loaded through a variable index
C15_Witness ==
    /\ program.decls = A3XY
    /\ phase = "exit"
    /\ program.stmts[4].kids[2].lex = <<1>>
    /\ program.stmts[5].kids[1].kids[2].tag = "AST_SUBTRACT"
    /\ program.stmts[6].kids[1].kids[2].tag = "AST_VAR_REF"
    /\ mem[VarAddr("a") + 8] = 7
    /\ out = <<Format(7)>>

----------------------------------------------------------------------------
(* Properties of the comparisons *)

\* the control statements of a program, in order
ControlsOf(p) == SelectSeq(p.stmts, LAMBDA st : st.tag \in ControlTags)

\* the control statement the k-th conditional jump executed belongs to: an IF
\* executes one, and only the last statement of these programs is a loop
ControlAt(p, k) ==
    ControlsOf(p)[IF k <= Len(ControlsOf(p)) THEN k ELSE Len(ControlsOf(p))]

CondOf(st) == IF st.tag = "AST_REPEAT" THEN st.kids[2] ELSE st.kids[1]

\* the inverted flag the control statement sets on its condition
InvertedOf(st) == st.tag # "AST_WHILE"

\* the table of the jumps: operator, then the jump when not inverted and
\* when inverted
JumpTable ==
    [AST_COMPARE_EQ  |-> <<"HINS_JE", "HINS_JNE">>,
     AST_COMPARE_NEQ |-> <<"HINS_JNE", "HINS_JE">>,
     AST_COMPARE_LT  |-> <<"HINS_JLT", "HINS_JGTE">>,
     AST_COMPARE_LTE |-> <<"HINS_JLTE", "HINS_JGT">>,
     AST_COMPARE_GT  |-> <<"HINS_JGT", "HINS_JLTE">>,
     AST_COMPARE_GTE |-> <<"HINS_JGTE", "HINS_JLT">>]

\* the indices in code of the conditional jumps, in order
CondJumps ==
    SelectSeq([i \in 1..Len(code) |-> i],
              LAMBDA i : code[i].opcode \in JumpOpcodes \ {"HINS_JUMP"})

\* C18: in a program whose control statements are not nested, the
\* conditional jumps of the generated code are, in order, those the table
\* gives for the operator and the inverted flag of each condition, each right
\* after an INT_COMPARE; and when run, a jump of a condition that is not
\* inverted is taken exactly when the comparison holds in memory, a jump of an
\* inverted one exactly when it does not.
C18_JumpFollowsTable ==
    /\ []((phase \in {"run", "exit"} /\ ControlsOf(program) # <<>>) =>
            /\ Len(CondJumps) = Len(ControlsOf(program))
            /\ \A k \in 1..Len(CondJumps) :
                  LET st == ControlsOf(program)[k] IN
                  /\ code[CondJumps[k]].opcode
                        = JumpTable[CondOf(st).tag][IF InvertedOf(st) THEN 2 ELSE 1]
                  /\ code[CondJumps[k] - 1].opcode = "HINS_INT_COMPARE")
    /\ [][(ControlsOf(program) # <<>> /\ Len(branches') = Len(branches) + 1) =>
             LET st == ControlAt(program, Len(branches')) IN
             branches'[Len(branches')] = (CondHolds(CondOf(st)) # InvertedOf(st))]_vars

\* x := 2; y := 2; REPEAT WRITE 1 UNTIL x >= y: the inverted jump of >= is
\* JLT, and it was not taken
C18_Witness ==
    /\ EndsWith(program, "AST_REPEAT")
    /\ ~prior.done
    /\ LastStatement.kids[2].tag = "AST_COMPARE_GTE"
    /\ code[Len(code)].opcode = "HINS_JLT"
    /\ phase = "exit"
    /\ branches = <<FALSE>>
    /\ out = <<Format(1)>>

====
